---- MODULE Spec2Model ----
(***************************************************************************)
(* BoxLite host-side box lifecycle: one box, its database row, its         *)
(* shim.pid file, the VMM shim processes, the per-box file lock, and the   *)
(* BoxImpl handles that host processes hold on the box.                    *)
(*                                                                         *)
(* The operations of BoxImpl (start, exec, metrics, copy_into, copy_out,   *)
(* stop) are translated from src/boxlite/src/litebox/box_impl.rs, the      *)
(* builder from src/boxlite/src/litebox/init/mod.rs.  Each call is run by  *)
(* a thread and is split where the code can be interleaved with another    *)
(* call: at the OnceCell, at the file lock, after each pipeline stage and  *)
(* at stop()'s guest/VMM shutdown.                                         *)
(*                                                                         *)
(* init/mod.rs names the status of a box that was never started            *)
(* `Starting`; box_impl.rs (line 502) and the SDKs name it `Configured`.  *)
(* The model has one value, "Configured", for that status.                 *)
(*                                                                         *)
(* Two timed loops are modelled on their own, with a clock in              *)
(* milliseconds: wait_for_guest_ready (init/tasks/guest_connect.rs) and    *)
(* ShimHandler::stop (vmm/controller/shim.rs).  Runtime.create,            *)
(* Runtime.remove and Runtime.shutdown follow the specification; their     *)
(* source file, runtime/rt_impl.rs, is not part of src/.                   *)
(*                                                                         *)
(* Three more parts are stepped on their own: the guest agent's Init       *)
(* handler (guest/src/service/guest.rs), the image index                   *)
(* (src/boxlite/src/db/images.rs) and the completion loop and exit of      *)
(* `boxlite run` (boxlite-cli/src/commands/run.rs).                        *)
(*                                                                         *)
(* Functions of their arguments only (the resource flags of the CLI, the   *)
(* command exec() sends, the directories of the layouts) are called once   *)
(* on each argument of a bounded set, in a specification of their own.     *)
(***************************************************************************)
EXTENDS Integers, FiniteSets, Sequences, TLC

\* ------------------------------------------------------------------ bounds
NumProcs == 2       \* host processes that may open the runtime
MaxThreads == 2     \* calls that may be in flight at once
MaxImpls == 3       \* BoxImpl objects ever built for the box
MaxOps == 3         \* calls begun in one behaviour
MaxCrashes == 1     \* host-process crashes in one behaviour
MaxHostOps == 2     \* calls begun in one behaviour shared by several hosts

Procs == 1..NumProcs
Threads == 1..MaxThreads
ImplIds == 1..MaxImpls

\* ------------------------------------------------------------------ types
\* BoxStatus (matched exhaustively in the SDKs).
BoxStatus == {"Unknown", "Configured", "Running", "Stopping", "Stopped"}

\* Operations that go through live_state() besides start().
LiveOps == {"exec", "metrics", "copy_into", "copy_out"}

\* BoxStatus::can_start.
can_start(status) == status \in {"Configured", "Stopped"}

\* A BoxImpl slot that holds no object.
NoImpl ==
  [used |-> FALSE, proc |-> 0, status |-> "Unknown", pid |-> 0,
   lock_id |-> FALSE, cancelled |-> FALSE, live |-> "empty", handler |-> 0]

\* BoxImpl::new: config and state given, token not cancelled, no LiveState.
\* `lock_id` tells whether the state's lock_id is Some.
NewImpl(p, status, pid) ==
  [used |-> TRUE, proc |-> p, status |-> status, pid |-> pid,
   lock_id |-> TRUE, cancelled |-> FALSE, live |-> "empty", handler |-> 0]

VARIABLES
  db,            \* the box's row: [exists, status, pid, lock_id]; `exists`
                 \* stands for the BoxConfig, the rest for the BoxState
  pidFile,       \* content of {box_home}/shim.pid, 0 when the file is absent
  alive,         \* PIDs of the shim processes that are running
  spawned,       \* shims spawned so far (the next PID is spawned + 1)
  lockHolders,   \* threads holding the per-box file lock
  auto_remove,   \* config.options.auto_remove
  up,            \* up[p]: host process p has the runtime open
  by_id,         \* by_id[p]: the BoxImpl cached for the box's id, 0 if none
  by_name,       \* by_name[p]: the name -> id entry is present
  boxes_stopped, \* runtime_metrics.boxes_stopped of process p
  impls,         \* the BoxImpl objects
  pc,            \* where each thread's call stands
  op,            \* the operation the thread runs (or ran last)
  self,          \* the BoxImpl the call is on
  snap,          \* init_live_state's clone of the state (its status)
  stageIdx,      \* next stage of the plan
  guard,         \* the pipeline's context: the CleanupGuard [armed, handler], the
                 \* flags reuse_rootfs and skip_guest_wait, the stages run so far
  built,         \* PID of the handler taken out of the guard for the LiveState
  atBegin,       \* the BoxImpl's status when the thread's call began
  res,           \* result of the thread's last call
  late,          \* the call began after a full stop() had returned on self
  opsBegun,      \* calls begun so far
  last,          \* thread that began the most recent call
  conc,          \* the thread's call overlapped another call
  stopRet,       \* BoxImpls on which some stop() has returned
  stopDone,      \* BoxImpls on which a stop() past its early exit has returned
  everUp,        \* processes that ever opened the runtime
  dbFailed,      \* a database write has failed so far
  crashes,       \* host-process crashes so far
  midCrash,      \* PID of a shim whose parent crashed between spawn and state write
  builds,        \* builds[i]: pipeline runs started on BoxImpl i
  ready,         \* one wait_for_guest_ready call: its clock, its shim, its outcome
  vmm,           \* one ShimHandler::stop call: its mode, its process, its signals
  rt,            \* rt[p]: the runtime's token and the progress of its shutdown()
  runtime_metrics, \* runtime_metrics[p]: the counters of RuntimeMetricsStorage
                   \* besides boxes_stopped
  box_metrics,   \* box_metrics[i]: the counters of BoxImpl i's LiveState
  guest,         \* one guest agent and the Guest.Init requests sent to it
  images,        \* the image index: the rows of table image_index, the
                 \* image last upserted per reference, the last call's result
  cli,           \* one `boxlite run` in the foreground: the guest's exit code
                 \* and the status the command exits with
  call           \* one call of a function of its arguments only: the
                 \* arguments, and the result once it has returned

vars ==
  <<db, pidFile, alive, spawned, lockHolders, auto_remove, up, by_id, by_name,
    boxes_stopped, impls, pc, op, self, snap, stageIdx, guard, built, atBegin,
    res, late, opsBegun, last, conc, stopRet, stopDone, everUp, dbFailed, crashes,
    midCrash, builds, ready, vmm, rt, runtime_metrics, box_metrics, guest,
    images, cli, call>>

shared == <<db, pidFile, alive, spawned>>
caches == <<by_id, by_name>>
locals == <<snap, stageIdx, guard, built>>
calls == <<atBegin, late, opsBegun, last, conc>>
history == <<stopRet, stopDone, everUp, dbFailed, crashes, midCrash, builds>>

\* The counters that exec() and create() increment.
counters == <<runtime_metrics, box_metrics>>
\* The parts of the system that are stepped on their own below: the two timed
\* loops, the guest agent, the image index and the run command.
machines == <<ready, vmm, guest, images, cli, call>>
\* What no operation on a BoxImpl but exec() changes: the box's options, the
\* runtime's token, the counters, and the parts stepped on their own.
fixed == <<auto_remove, machines, rt, counters>>
\* Everything but the parts stepped on their own.
system == <<db, pidFile, alive, spawned, lockHolders, auto_remove, up, by_id,
            by_name, boxes_stopped, impls, pc, op, self, snap, stageIdx, guard,
            built, atBegin, res, late, opsBegun, last, conc, stopRet, stopDone,
            everUp, dbFailed, crashes, midCrash, builds, rt, counters>>
\* What a step of the loops, the guest agent, the image index or the run
\* command leaves alone besides the other four.
box == <<system, call>>

NoGuard ==
  [armed |-> FALSE, handler |-> 0, reuse_rootfs |-> FALSE,
   skip_guest_wait |-> FALSE, ran |-> <<>>]

\* wait_for_guest_ready: `timeout` and wait_for_process_exit's `poll_interval`,
\* in milliseconds.
ReadyTimeoutMs == 30000
ProcessPollMs == 500

\* "No such time" for the clock at which the shim died.
Never == ReadyTimeoutMs + ProcessPollMs

\* A runtime whose shutdown() was not called: `by` is the thread running
\* shutdown(), `was` the BoxImpl it found Running.
NoShutdown == [cancelled |-> FALSE, down |-> "no", by |-> 0, was |-> 0]

\* VmmSpawn has returned and GuestConnect has not yet called
\* wait_for_guest_ready.  `refused`: the guest has connected to the ready
\* socket while nothing listened on it.
NoReadyWait ==
  [phase |-> "idle", clock |-> 0, monitored |-> FALSE, shimAlive |-> FALSE,
   diedAt |-> Never, cancelled |-> FALSE, outcome |-> "none",
   refused |-> FALSE]

\* ShimHandler::stop: the grace period and the sleep between two polls, in
\* milliseconds.
GRACEFUL_SHUTDOWN_TIMEOUT_MS == 2000
StopPollMs == 50

NoVmmStop ==
  [phase |-> "idle", mode |-> "child", ours |-> TRUE, proc |-> "running",
   elapsed |-> 0, term |-> FALSE, kill |-> FALSE, killAt |-> 0,
   waitErr |-> FALSE]

\* RuntimeMetricsStorage::new: every counter is 0 (boxes_stopped is the
\* variable of that name).
NoRuntimeMetrics ==
  [boxes_created |-> 0, boxes_failed |-> 0, total_commands |-> 0,
   total_exec_errors |-> 0]

\* u64::saturating_sub.
saturating_sub(a, b) == IF a >= b THEN a - b ELSE 0

\* RuntimeMetrics::num_running_boxes of process p's runtime.
num_running_boxes(p) ==
  saturating_sub(saturating_sub(runtime_metrics[p].boxes_created, boxes_stopped[p]),
                 runtime_metrics[p].boxes_failed)

\* The counters of a LiveState that exec() increments.
NoBoxMetrics == [commands_executed |-> 0, exec_errors |-> 0]

\* Guest.Init requests sent to the guest in one behaviour.
MaxInits == 3
Inits == 1..MaxInits

\* GuestServer with init_state.initialized = false and no request received.
\* `lock` is the request holding init_state's mutex; `mounts` and `networks`
\* count the calls of mount_volumes and configure_network_from_config.
NoGuest ==
  [initialized |-> FALSE, lock |-> 0,
   pc |-> [r \in Inits |-> "idle"], result |-> [r \in Inits |-> "none"],
   rootfs |-> [r \in Inits |-> TRUE], network |-> [r \in Inits |-> FALSE],
   mounts |-> 0, networks |-> 0]

\* The image references, digests and layer lists of the store's tests.
References == {"python:alpine", "alpine:latest"}
ManifestDigests == {"sha256:abc123", "sha256:def456"}
ConfigDigests == {"sha256:config123", "sha256:config456"}
LayerLists == {<<"sha256:layer1">>, <<"sha256:layer1", "sha256:layer2">>}

\* The times at which an image may be cached.
MaxCachedAt == 2

\* CachedImage.
CachedImages ==
  [manifest_digest : ManifestDigests, config_digest : ConfigDigests,
   layers : LayerLists, cached_at : 1..MaxCachedAt, complete : BOOLEAN]

\* An empty image_index table on which nothing was called yet.  `latest` is
\* the map the store stands for: per reference, the image of the latest
\* upsert, none after a remove.  `ret` is the last call: for a remove, what
\* it returned and whether the map had an entry.
NoImages ==
  [rows |-> {}, latest |-> [r \in References |-> {}],
   ret |-> [op |-> "none", removed |-> FALSE, existed |-> FALSE]]

\* The highest signal number of the guest's kernel.
MaxSignal == 64

\* std::process::exit: the parent sees the low 8 bits of the code.
ExitStatusBits == 8

\* What wait_for_completion may report: -n for a process killed by signal n,
\* else the exit status of the process.
ExitCodes == (0 - MaxSignal..0 - 1) \cup (0..2^ExitStatusBits - 1)

\* Host signals forwarded in one run of the completion loop.
MaxHostSignals == 2

\* The signals wait_for_completion forwards to the execution.
HostSignals == {"SIGINT", "SIGTERM", "SIGHUP"}

\* BoxRunner::run before setup_io_streaming: no exit code yet, the command
\* has not exited.  `io_tasks` counts the stdout/stderr forwarding tasks still
\* running, `stdin` is the stdin forwarding task, `has_status` stands for
\* exit_status.is_some(), `events` lists the branches the loop's select! took.
NoRun ==
  [phase |-> "setup", exit_code |-> 0, status |-> 0, io_tasks |-> 0,
   io_done |-> FALSE, has_status |-> FALSE, stdin |-> "none", events |-> <<>>]

\* No function is being called.
NoCall == [fn |-> "none"]

\* ------------------------------------------------------------------- init
\* The state after Runtime.create: the row is persisted as Configured, no
\* shim was ever spawned, no host process has the runtime open yet.
InitCommon ==
  /\ lockHolders = {}
  /\ auto_remove \in BOOLEAN
  /\ up = [p \in Procs |-> FALSE]
  /\ by_id = [p \in Procs |-> 0]
  /\ by_name = [p \in Procs |-> FALSE]
  /\ boxes_stopped = [p \in Procs |-> 0]
  /\ impls = [i \in ImplIds |-> NoImpl]
  /\ pc = [t \in Threads |-> "idle"]
  /\ op = [t \in Threads |-> "none"]
  /\ self = [t \in Threads |-> 0]
  /\ snap = [t \in Threads |-> "Unknown"]
  /\ stageIdx = [t \in Threads |-> 0]
  /\ guard = [t \in Threads |-> NoGuard]
  /\ built = [t \in Threads |-> 0]
  /\ atBegin = [t \in Threads |-> "Unknown"]
  /\ res = [t \in Threads |-> "none"]
  /\ late = [t \in Threads |-> FALSE]
  /\ opsBegun = 0
  /\ last = 1
  /\ conc = [t \in Threads |-> FALSE]
  /\ stopRet = {}
  /\ stopDone = {}
  /\ everUp = {}
  /\ dbFailed = FALSE
  /\ crashes = 0
  /\ midCrash = 0
  /\ builds = [i \in ImplIds |-> 0]
  /\ ready = NoReadyWait
  /\ vmm = NoVmmStop
  /\ rt = [p \in Procs |-> NoShutdown]
  /\ runtime_metrics = [p \in Procs |-> NoRuntimeMetrics]
  /\ box_metrics = [i \in ImplIds |-> NoBoxMetrics]
  /\ guest = NoGuest
  /\ images = NoImages
  /\ cli = NoRun

Init ==
  /\ db = [exists |-> TRUE, status |-> "Configured", pid |-> 0, lock_id |-> TRUE]
  /\ pidFile = 0
  /\ alive = {}
  /\ spawned = 0
  /\ InitCommon
  /\ call = NoCall

\* ------------------------------------------------------- runtime and OS
\* What crash recovery makes of the row when a runtime opens: shim.pid is
\* read and the PID's liveness decides between Running and Stopped.
Recovered(row) ==
  IF ~row.exists \/ pidFile = 0 THEN row
  ELSE IF pidFile \in alive
       THEN [row EXCEPT !.status = "Running", !.pid = pidFile]
       ELSE [row EXCEPT !.status = "Stopped", !.pid = 0]

\* A host process opens the runtime (BoxliteRuntime::new) and recovers.
Open(p) ==
  /\ ~up[p]
  /\ up' = [up EXCEPT ![p] = TRUE]
  /\ db' = Recovered(db)
  /\ pidFile' = IF pidFile # 0 /\ pidFile \notin alive THEN 0 ELSE pidFile
  /\ everUp' = everUp \cup {p}
  /\ UNCHANGED <<alive, spawned, lockHolders, fixed, caches, boxes_stopped,
                 impls, pc, op, self, locals, calls, res, stopRet, stopDone,
                 dbFailed, crashes, midCrash, builds>>

\* The threads running a call on a BoxImpl of process p.
ThreadsOf(p) == {t \in Threads : pc[t] # "idle" /\ impls[self[t]].proc = p}

\* The shim a thread's build has spawned while the new state is not saved yet.
UnsavedSpawn(t) ==
  IF pc[t] \in {"stage", "finish"} /\ snap[t] # "Running"
  THEN (IF guard[t].handler # 0 THEN guard[t].handler ELSE built[t])
  ELSE 0

\* A host process dies: its threads, BoxImpls, caches and counters are gone
\* and the OS releases its file locks; the shim processes live on.
Crash(p) ==
  /\ up[p]
  /\ crashes < MaxCrashes
  /\ crashes' = crashes + 1
  /\ up' = [up EXCEPT ![p] = FALSE]
  /\ by_id' = [by_id EXCEPT ![p] = 0]
  /\ by_name' = [by_name EXCEPT ![p] = FALSE]
  /\ boxes_stopped' = [boxes_stopped EXCEPT ![p] = 0]
  /\ impls' = [i \in ImplIds |-> IF impls[i].proc = p THEN NoImpl ELSE impls[i]]
  /\ builds' = [i \in ImplIds |-> IF impls[i].proc = p THEN 0 ELSE builds[i]]
  /\ stopDone' = {i \in stopDone : impls[i].proc # p}
  /\ stopRet' = {i \in stopRet : impls[i].proc # p}
  /\ conc' = [t \in Threads |->
                IF self[t] # 0 /\ impls[self[t]].proc = p THEN FALSE ELSE conc[t]]
  /\ lockHolders' = lockHolders \ ThreadsOf(p)
  /\ pc' = [t \in Threads |-> IF t \in ThreadsOf(p) THEN "idle" ELSE pc[t]]
  /\ res' = [t \in Threads |->
               IF self[t] # 0 /\ impls[self[t]].proc = p THEN "none" ELSE res[t]]
  /\ op' = [t \in Threads |->
              IF self[t] # 0 /\ impls[self[t]].proc = p THEN "none" ELSE op[t]]
  /\ late' = [t \in Threads |->
                IF self[t] # 0 /\ impls[self[t]].proc = p THEN FALSE ELSE late[t]]
  /\ self' = [t \in Threads |->
                IF self[t] # 0 /\ impls[self[t]].proc = p THEN 0 ELSE self[t]]
  /\ snap' = [t \in Threads |-> IF t \in ThreadsOf(p) THEN "Unknown" ELSE snap[t]]
  /\ stageIdx' = [t \in Threads |-> IF t \in ThreadsOf(p) THEN 0 ELSE stageIdx[t]]
  /\ guard' = [t \in Threads |-> IF t \in ThreadsOf(p) THEN NoGuard ELSE guard[t]]
  /\ built' = [t \in Threads |-> IF t \in ThreadsOf(p) THEN 0 ELSE built[t]]
  /\ atBegin' = [t \in Threads |->
                   IF self[t] # 0 /\ impls[self[t]].proc = p THEN "Unknown" ELSE atBegin[t]]
  /\ midCrash' = IF \E t \in ThreadsOf(p) : UnsavedSpawn(t) # 0
                 THEN UnsavedSpawn(CHOOSE t \in ThreadsOf(p) : UnsavedSpawn(t) # 0)
                 ELSE midCrash
  /\ rt' = [rt EXCEPT ![p] = NoShutdown]
  /\ runtime_metrics' = [runtime_metrics EXCEPT ![p] = NoRuntimeMetrics]
  /\ box_metrics' = [i \in ImplIds |->
                       IF impls[i].proc = p THEN NoBoxMetrics ELSE box_metrics[i]]
  /\ UNCHANGED <<shared, auto_remove, machines, opsBegun, last, everUp, dbFailed>>

\* A shim process exits on its own (VM crash, guest power-off).
ShimExit(pid) ==
  /\ pid \in alive
  /\ alive' = alive \ {pid}
  /\ UNCHANGED <<db, pidFile, spawned, lockHolders, fixed, up, caches,
                 boxes_stopped, impls, pc, op, self, locals, calls, res, history>>

\* shutdown_token.child_token(): the child of a cancelled token is cancelled.
child_token(p, impl) == [impl EXCEPT !.cancelled = rt[p].cancelled]

FreeImpls == {i \in ImplIds : ~impls[i].used}

\* Runtime.get(id or name) when the cache holds no BoxImpl: one is built from
\* the row, with a fresh child token, and cached by id and by name.
Get(p) ==
  /\ up[p]
  /\ db.exists
  /\ by_id[p] = 0
  /\ FreeImpls # {}
  /\ LET i == CHOOSE j \in FreeImpls : \A k \in FreeImpls : j <= k IN
       /\ impls' = [impls EXCEPT ![i] = child_token(p, [NewImpl(p, db.status, db.pid)
                                      EXCEPT !.lock_id = db.lock_id])]
       /\ by_id' = [by_id EXCEPT ![p] = i]
       /\ by_name' = [by_name EXCEPT ![p] = TRUE]
  /\ UNCHANGED <<shared, lockHolders, fixed, up, boxes_stopped, pc, op,
                 self, locals, calls, res, history>>

\* invalidate_box_impl(id, name): both cache entries of the box are removed.
invalidate_box_impl(p) ==
  /\ by_id' = [by_id EXCEPT ![p] = 0]
  /\ by_name' = [by_name EXCEPT ![p] = FALSE]

\* Runtime.remove(id, force = false) on a box that is not Running: the row,
\* the cache entries and the box directory (with shim.pid) are deleted.
Remove(p) ==
  /\ up[p]
  /\ db.exists
  /\ db.status # "Running"
  /\ db' = [db EXCEPT !.exists = FALSE]
  /\ pidFile' = 0
  /\ invalidate_box_impl(p)
  /\ UNCHANGED <<alive, spawned, lockHolders, fixed, up, boxes_stopped,
                 impls, pc, op, self, locals, calls, res, history>>

\* ------------------------------------------------------------ BoxImpl calls
\* shutdown_token.is_cancelled(), the first check of start, exec, metrics,
\* copy_into and copy_out.
IsCancelled_Never(i) == FALSE

IsCancelled(i) == impls[i].cancelled

\* start(): a status that is neither Running nor startable is rejected.
StartRejects_Never(status) == FALSE

StartRejects(status) == ~can_start(status)

\* stop(): "Early exit if already stopped"; the status is checked, not the token.
StopEarlyExit_Token(i) == impls[i].cancelled

StopEarlyExit(i) == impls[i].status = "Stopped"

Ret(t, r) ==
  /\ pc' = [pc EXCEPT ![t] = "idle"]
  /\ res' = [res EXCEPT ![t] = r]

Goto(t, where) ==
  /\ pc' = [pc EXCEPT ![t] = where]
  /\ res' = [res EXCEPT ![t] = "none"]

\* A thread begins operation o on BoxImpl i, a handle its process still holds
\* (threads are interchangeable: the lowest idle one takes the call).
BeginCall(t, i, o) ==
  /\ pc[t] = "idle"
  /\ \A u \in Threads : u < t => pc[u] # "idle"
  /\ opsBegun < MaxOps
  /\ impls[i].used
  /\ up[impls[i].proc]
  /\ op' = [op EXCEPT ![t] = o]
  /\ self' = [self EXCEPT ![t] = i]
  /\ atBegin' = [atBegin EXCEPT ![t] = impls[i].status]
  /\ late' = [late EXCEPT ![t] = i \in stopDone]
  /\ opsBegun' = opsBegun + 1
  /\ last' = t
  /\ conc' = [u \in Threads |->
                IF u = t THEN \E v \in Threads \ {t} : pc[v] # "idle"
                ELSE conc[u] \/ pc[u] # "idle"]

StartIsNoOp_Never(status) == FALSE

\* start(): "Check if already running (idempotent)".
StartIsNoOp(status) == status = "Running"

\* BoxImpl::start up to live_state().
StartCall(t, i) ==
  /\ BeginCall(t, i, "start")
  /\ IF IsCancelled(i) THEN Ret(t, "Stopped")
     ELSE IF StartIsNoOp(impls[i].status) THEN Ret(t, "Ok")
     ELSE IF StartRejects(impls[i].status) THEN Ret(t, "InvalidState")
     ELSE Goto(t, "cell")
  /\ UNCHANGED <<shared, lockHolders, fixed, up, caches, boxes_stopped,
                 impls, locals, history>>

\* BoxImpl::exec, metrics, copy_into, copy_out up to live_state().
LiveCall(t, i, o) ==
  /\ BeginCall(t, i, o)
  /\ IF IsCancelled(i) THEN Ret(t, "Stopped") ELSE Goto(t, "cell")
  /\ UNCHANGED <<shared, lockHolders, fixed, up, caches, boxes_stopped,
                 impls, locals, history>>

\* What the caller of live_state() does with the LiveState: start() returns,
\* the others go on to use it.
AfterLive(t) ==
  IF op[t] = "start" THEN Ret(t, "Ok") ELSE Goto(t, "body")

\* OnceCell::get_or_try_init runs the initializer only on an empty cell that
\* no other caller is initializing.
CellCanInit_Racy(i) == impls[i].live # "set"

CellCanInit(i) == impls[i].live = "empty"

\* live_state(): the cell's value, or the start of init_live_state (the state
\* is cloned before the lock is taken).  A caller waits while another one
\* initializes.
LiveStateEnter(t) ==
  /\ pc[t] = "cell"
  /\ LET i == self[t] IN
       \/ /\ impls[i].live = "set"
          /\ AfterLive(t)
          /\ UNCHANGED <<impls, snap>>
       \/ /\ impls[i].live # "set"
          /\ CellCanInit(i)
          /\ impls' = [impls EXCEPT ![i].live = "init"]
          /\ snap' = [snap EXCEPT ![t] = impls[i].status]
          /\ Goto(t, "lock")
  /\ UNCHANGED <<shared, lockHolders, fixed, up, caches, boxes_stopped,
                 op, self, stageIdx, guard, built, calls, history>>

\* LockGuard::new blocks until no one holds the box's lock.
LockFree == lockHolders = {}

\* `_guard` goes out of scope when init_live_state returns (or unwinds).
DropGuard_Leak(t) == lockHolders

DropGuard(t) == lockHolders \ {t}

\* A stage of a plan is the set of its tasks (more than one: a parallel stage).
FirstStartPlan_SpawnFirst ==
  <<{"Filesystem"}, {"VmmSpawn"}, {"ContainerRootfs", "GuestRootfs"},
    {"GuestConnect"}, {"GuestInit"}>>

FirstStartPlan ==
  <<{"Filesystem"}, {"ContainerRootfs", "GuestRootfs"}, {"VmmSpawn"},
    {"GuestConnect"}, {"GuestInit"}>>

AttachPlan == <<{"VmmAttach"}, {"GuestConnect"}>>

get_execution_plan_Respawn(status) ==
  IF status \in {"Configured", "Stopped", "Running"} THEN FirstStartPlan ELSE <<>>

\* get_execution_plan: the empty plan stands for the panic of the `_` arm.
get_execution_plan(status) ==
  CASE status = "Configured" -> FirstStartPlan
    [] status = "Stopped" -> FirstStartPlan
    [] status = "Running" -> AttachPlan
    [] OTHER -> <<>>

\* BoxBuilder::build, lines 193-196: the guard stays armed for a first start only.
GuardArmedAtStart(status) == status = "Configured"

\* BoxBuilder::build, line 187.
reuse_rootfs(status) == status = "Stopped"

skip_guest_wait_Never(status) == FALSE

\* BoxBuilder::build, line 188.
skip_guest_wait(status) == status = "Running"

\* The initializer ends without a LiveState: the cell stays empty, the lock
\* guard is dropped.
FailInit(t, r) ==
  /\ impls' = [impls EXCEPT ![self[t]].live = "empty"]
  /\ lockHolders' = DropGuard(t)
  /\ snap' = [snap EXCEPT ![t] = "Unknown"]
  /\ stageIdx' = [stageIdx EXCEPT ![t] = 0]
  /\ guard' = [guard EXCEPT ![t] = NoGuard]
  /\ built' = [built EXCEPT ![t] = 0]
  /\ Ret(t, r)

\* init_live_state from LockGuard::new to the choice of the plan in
\* BoxBuilder::build (BoxBuilder::new may reject the options).
AcquireLock(t) ==
  /\ pc[t] = "lock"
  /\ LockFree
  /\ \E sane \in BOOLEAN :
       IF ~sane THEN
         /\ FailInit(t, "Err")
         /\ UNCHANGED builds
       ELSE IF get_execution_plan(snap[t]) = <<>> THEN
         /\ FailInit(t, "Panic")
         /\ UNCHANGED builds
       ELSE
         /\ lockHolders' = lockHolders \cup {t}
         /\ guard' = [guard EXCEPT ![t] =
                        [armed |-> GuardArmedAtStart(snap[t]), handler |-> 0,
                         reuse_rootfs |-> reuse_rootfs(snap[t]),
                         skip_guest_wait |-> skip_guest_wait(snap[t]),
                         ran |-> <<>>]]
         /\ stageIdx' = [stageIdx EXCEPT ![t] = 1]
         /\ builds' = [builds EXCEPT ![self[t]] = @ + 1]
         /\ Goto(t, "stage")
         /\ UNCHANGED <<impls, snap, built>>
  /\ UNCHANGED <<shared, fixed, up, caches, boxes_stopped, op, self,
                 calls, stopRet, stopDone, everUp, dbFailed, crashes, midCrash>>

\* Whether the stage's tasks can succeed now.  VmmAttach builds its handler
\* from shim.pid; a guest can only signal readiness or answer Guest.Init
\* while its shim runs (the ready-wait is skipped when skip_guest_wait is set).
StageCanSucceed(t, stage) ==
  CASE "VmmAttach" \in stage -> pidFile # 0
    [] "GuestConnect" \in stage ->
         guard[t].skip_guest_wait \/ guard[t].handler \in alive
    [] "GuestInit" \in stage -> guard[t].handler \in alive
    [] OTHER -> TRUE

\* CleanupGuard's drop: an armed guard stops the VMM handler it holds.
CleanupAlive(t) ==
  IF guard[t].armed /\ guard[t].handler # 0
  THEN alive \ {guard[t].handler} ELSE alive

\* PipelineExecutor::execute, one stage of the plan: the stage succeeds when
\* none of its tasks fails, and the first failing stage ends the pipeline.
\* After the last stage BoxBuilder::build takes the handler out of the guard
\* and disarms it (lines 202-214).
RunStage(t) ==
  /\ pc[t] = "stage"
  /\ LET plan == get_execution_plan(snap[t])
         stage == plan[stageIdx[t]]
         isLast == stageIdx[t] = Len(plan)
         newPid == spawned + 1
         handler == IF "VmmSpawn" \in stage THEN newPid
                    ELSE IF "VmmAttach" \in stage THEN pidFile
                    ELSE guard[t].handler
     IN \E failed \in SUBSET stage :
          IF failed = {} /\ StageCanSucceed(t, stage) THEN
            /\ IF "VmmSpawn" \in stage
               THEN /\ spawned' = newPid
                    /\ alive' = alive \cup {newPid}
                    /\ pidFile' = newPid
               ELSE UNCHANGED <<spawned, alive, pidFile>>
            /\ IF isLast
               THEN /\ built' = [built EXCEPT ![t] = handler]
                    /\ guard' = [guard EXCEPT ![t].armed = FALSE, ![t].handler = 0,
                                              ![t].ran = Append(@, stage)]
                    /\ stageIdx' = [stageIdx EXCEPT ![t] = 0]
                    /\ Goto(t, "finish")
               ELSE /\ guard' = [guard EXCEPT ![t].handler = handler,
                                              ![t].ran = Append(@, stage)]
                    /\ stageIdx' = [stageIdx EXCEPT ![t] = @ + 1]
                    /\ UNCHANGED <<built, pc, res>>
            /\ UNCHANGED <<impls, lockHolders, snap>>
          ELSE
            /\ alive' = CleanupAlive(t)
            /\ FailInit(t, "Err")
            /\ UNCHANGED <<spawned, pidFile>>
  /\ UNCHANGED <<db, fixed, up, caches, boxes_stopped, op, self, calls,
                 history>>

\* Whether the cleanup guard still stops the VMM when init_live_state fails
\* after the build: box_impl.rs keeps the guard it takes from build() armed
\* until line 563, BoxBuilder::build (init/mod.rs, line 214) has disarmed it.
\* Both outcomes are kept; a guard disarmed before the pipeline cleans nothing.
LateCleanups(status) == IF GuardArmedAtStart(status) THEN BOOLEAN ELSE {FALSE}

\* init_live_state, lines 538-573: the PID is read from shim.pid, the state is
\* set to Running in memory and then saved; the cell is filled on success.
InitFinish(t) ==
  /\ pc[t] = "finish"
  /\ \E dbok \in BOOLEAN, cleaned \in LateCleanups(snap[t]) :
       LET i == self[t] IN
         IF pidFile = 0 THEN
           /\ FailInit(t, "Err")
           /\ alive' = (IF cleaned THEN alive \ {built[t]} ELSE alive)
           /\ UNCHANGED <<db, pidFile, dbFailed>>
         ELSE IF db.exists /\ dbok THEN
           /\ impls' = [impls EXCEPT ![i].status = "Running", ![i].pid = pidFile,
                                     ![i].live = "set", ![i].handler = built[t]]
           /\ db' = [db EXCEPT !.status = "Running", !.pid = pidFile]
           /\ lockHolders' = DropGuard(t)
           /\ snap' = [snap EXCEPT ![t] = "Unknown"]
           /\ built' = [built EXCEPT ![t] = 0]
           /\ guard' = [guard EXCEPT ![t] = NoGuard]
           /\ AfterLive(t)
           /\ UNCHANGED <<stageIdx, dbFailed, alive, pidFile>>
         ELSE
           /\ impls' = [impls EXCEPT ![i].status = "Running", ![i].pid = pidFile,
                                     ![i].live = "empty"]
           /\ lockHolders' = DropGuard(t)
           /\ snap' = [snap EXCEPT ![t] = "Unknown"]
           /\ built' = [built EXCEPT ![t] = 0]
           /\ dbFailed' = (dbFailed \/ db.exists)
           /\ alive' = (IF cleaned THEN alive \ {built[t]} ELSE alive)
           /\ pidFile' = (IF cleaned THEN 0 ELSE pidFile)
           /\ guard' = [guard EXCEPT ![t] = NoGuard]
           /\ Ret(t, "Err")
           /\ UNCHANGED <<db, stageIdx>>
  /\ UNCHANGED <<spawned, fixed, up, caches, boxes_stopped, op, self,
                 calls, stopRet, stopDone, everUp, crashes, midCrash, builds>>

\* exec(), lines 232-245: one counter of commands is incremented, and one of
\* errors when the guest call failed.
Instrument(m, commands, errors, failed) ==
  [m EXCEPT ![commands] = @ + 1, ![errors] = IF failed THEN @ + 1 ELSE @]

\* The rest of exec, metrics, copy_into, copy_out once the LiveState is there:
\* the guest call succeeds or fails; exec hands the token to the guest call.
\* exec() returns the error of guest_session.execution() before it counts.
Body(t) ==
  /\ pc[t] = "body"
  /\ \E session \in BOOLEAN, ok \in BOOLEAN :
       LET i == self[t]
           p == impls[self[t]].proc
           r == IF op[t] = "exec" /\ impls[i].cancelled THEN "Stopped"
                ELSE IF ok THEN "Ok" ELSE "Err"
       IN IF op[t] = "exec" /\ ~session THEN
            /\ Ret(t, "Err")
            /\ UNCHANGED counters
          ELSE IF op[t] = "exec" THEN
            /\ Ret(t, r)
            /\ box_metrics' =
                 [box_metrics EXCEPT
                    ![i] = Instrument(@, "commands_executed", "exec_errors", r # "Ok")]
            /\ runtime_metrics' =
                 [runtime_metrics EXCEPT
                    ![p] = Instrument(@, "total_commands", "total_exec_errors", r # "Ok")]
          ELSE
            /\ session
            /\ Ret(t, r)
            /\ UNCHANGED counters
  /\ UNCHANGED <<shared, lockHolders, auto_remove, machines, rt, up, caches,
                 boxes_stopped, impls, op, self, locals, calls, history>>

Cancelled_Not(impl) == impl

\* shutdown_token.cancel() on a BoxImpl.
Cancelled(impl) == [impl EXCEPT !.cancelled = TRUE]

\* stop(), lines 284-306: the early exit, else the token is cancelled and, if
\* the LiveState exists, the guest is shut down and the handler stopped.
StopEnter(t, i) ==
  IF StopEarlyExit(i) THEN
    /\ Ret(t, "Ok")
    /\ stopRet' = stopRet \cup {i}
    /\ UNCHANGED <<impls, alive>>
  ELSE
    /\ impls' = [impls EXCEPT ![i] = Cancelled(impls[i])]
    /\ alive' = IF impls[i].live = "set" THEN alive \ {impls[i].handler} ELSE alive
    /\ Goto(t, "stopfin")
    /\ UNCHANGED stopRet

\* stop() called on a handle.
StopBegin(t, i) ==
  /\ BeginCall(t, i, "stop")
  /\ StopEnter(t, i)
  /\ UNCHANGED <<db, pidFile, spawned, lockHolders, fixed, up, caches,
                 boxes_stopped, locals, stopDone, everUp, dbFailed, crashes,
                 midCrash, builds>>

\* stop(), lines 356-358: the cache entries are invalidated by id and by name.
StopInvalidates_Skipped == FALSE

StopInvalidates == TRUE

StopRemoves_Never == FALSE

\* stop(), lines 368-370: an auto_remove box is removed once it is stopped
\* (remove_box deletes the row, the cache entries and the box directory).
StopRemoves == auto_remove

set_stopped_KeepPid(state) == [state EXCEPT !.status = "Stopped"]

\* stop(), lines 331-333: set_status(Stopped) and set_pid(None) under one
\* write lock.
set_stopped(state) == [state EXCEPT !.status = "Stopped", !.pid = 0]

was_persisted_Never(state) == FALSE

\* stop(), line 327: the state has a lock_id.
was_persisted(state) == state.lock_id

\* stop(), lines 349-351: add_box inserts the config and the state as the
\* box's row.
add_box(state) ==
  [exists |-> TRUE, status |-> state.status, pid |-> state.pid,
   lock_id |-> state.lock_id]

save_box_NotFound_Never(row) == FALSE

\* stop(), lines 338-345: save_box updates the box's row and returns NotFound
\* when there is none; stop() then returns Ok at once.
save_box_NotFound(row) == ~row.exists

\* stop(), lines 308-372: shim.pid is removed, the state is set to Stopped
\* and saved, the caches are invalidated, boxes_stopped is incremented, and an
\* auto_remove box is removed.
StopFinish(t) ==
  /\ pc[t] = "stopfin"
  /\ LET i == self[t]
         p == impls[self[t]].proc
     IN
       /\ pidFile' = 0
       /\ impls' = [impls EXCEPT ![i] = set_stopped(@)]
       /\ stopDone' = stopDone \cup {i}
       /\ stopRet' = stopRet \cup {i}
       /\ \E dbok \in BOOLEAN :
            IF was_persisted(impls[i]) /\ save_box_NotFound(db) THEN
              /\ Ret(t, "Ok")
              /\ UNCHANGED <<db, caches, boxes_stopped, dbFailed>>
            ELSE IF ~dbok THEN
              /\ Ret(t, "Err")
              /\ dbFailed' = TRUE
              /\ UNCHANGED <<db, caches, boxes_stopped>>
            ELSE
              /\ db' = [(IF was_persisted(impls[i])
                         THEN [db EXCEPT !.status = set_stopped(impls[i]).status,
                                         !.pid = set_stopped(impls[i]).pid]
                         ELSE add_box(set_stopped(impls[i])))
                        EXCEPT !.exists = ~StopRemoves]
              /\ IF StopInvalidates \/ StopRemoves
                 THEN invalidate_box_impl(p)
                 ELSE UNCHANGED caches
              /\ boxes_stopped' = [boxes_stopped EXCEPT ![p] = @ + 1]
              /\ Ret(t, "Ok")
              /\ UNCHANGED dbFailed
  /\ UNCHANGED <<alive, spawned, lockHolders, fixed, up, op, self, locals,
                 calls, everUp, crashes, midCrash, builds>>

\* ------------------------------------------------------------------- spec
\* One host process at a time has the runtime open (a crashed one may be
\* followed by another in the same slot).
\* -------------------------------------------------------------- runtime
\* A thread begins a call on the runtime of process p.
BeginRuntimeCall(t, p, o) ==
  /\ pc[t] = "idle"
  /\ \A u \in Threads : u < t => pc[u] # "idle"
  /\ opsBegun < MaxOps
  /\ up[p]
  /\ op' = [op EXCEPT ![t] = o]
  /\ atBegin' = [atBegin EXCEPT ![t] = "Unknown"]
  /\ late' = [late EXCEPT ![t] = FALSE]
  /\ opsBegun' = opsBegun + 1
  /\ last' = t
  /\ conc' = [u \in Threads |->
                IF u = t THEN \E v \in Threads \ {t} : pc[v] # "idle"
                ELSE conc[u] \/ pc[u] # "idle"]

NameTaken_Never == FALSE

\* Runtime.create, step 3: the name already maps to a live box.
NameTaken == db.exists

\* Runtime.create for the box's name: refused with Stopped once the runtime's
\* token is cancelled, with AlreadyExists while the name maps to a box; else
\* the row is persisted as Configured, a BoxImpl is cached and boxes_created
\* is incremented.  The new box has an id of its own: the model follows it
\* in place of the removed one, whose handles are dropped with the calls on
\* them returned.
CreateCall(t, p) ==
  /\ BeginRuntimeCall(t, p, "create")
  /\ IF rt[p].cancelled \/ NameTaken THEN
       /\ Ret(t, IF rt[p].cancelled THEN "Stopped" ELSE "AlreadyExists")
       /\ self' = [self EXCEPT ![t] = 0]
       /\ UNCHANGED <<db, impls, caches, counters, stopRet, stopDone, builds>>
     ELSE
       /\ \A u \in Threads \ {t} : pc[u] = "idle"
       /\ db' = [exists |-> TRUE, status |-> "Configured", pid |-> 0,
                 lock_id |-> TRUE]
       /\ impls' = [i \in ImplIds |->
                      IF i = 1 THEN child_token(p, NewImpl(p, "Configured", 0))
                      ELSE NoImpl]
       /\ by_id' = [by_id EXCEPT ![p] = 1]
       /\ by_name' = [by_name EXCEPT ![p] = TRUE]
       /\ runtime_metrics' = [runtime_metrics EXCEPT ![p].boxes_created = @ + 1]
       /\ box_metrics' = [i \in ImplIds |-> NoBoxMetrics]
       /\ self' = [u \in Threads |-> 0]
       /\ stopRet' = {}
       /\ stopDone' = {}
       /\ builds' = [i \in ImplIds |-> 0]
       /\ Ret(t, "Ok")
  /\ UNCHANGED <<pidFile, alive, spawned, lockHolders, auto_remove, machines, rt,
                 up, boxes_stopped, locals, everUp, dbFailed, crashes, midCrash>>

RowFound_Always == TRUE

\* Runtime.remove looks the box up by id or name.
RowFound == db.exists

RemoveRefused_Never == FALSE

\* Runtime.remove with force = false: a Running box is not removed.
RemoveRefused == db.status = "Running"

\* Runtime.remove(id, force = false) called on the runtime: NotFound when the
\* box has no row, InvalidState when it is Running; else the row, the cache
\* entries and the box directory (with shim.pid) are deleted.
RemoveCall(t, p) ==
  /\ BeginRuntimeCall(t, p, "remove")
  /\ self' = [self EXCEPT ![t] = 0]
  /\ IF ~RowFound THEN
       /\ Ret(t, "NotFound")
       /\ UNCHANGED <<db, pidFile, caches>>
     ELSE IF RemoveRefused THEN
       /\ Ret(t, "InvalidState")
       /\ UNCHANGED <<db, pidFile, caches>>
     ELSE
       /\ db' = [db EXCEPT !.exists = FALSE]
       /\ pidFile' = 0
       /\ invalidate_box_impl(p)
       /\ Ret(t, "Ok")
  /\ UNCHANGED <<alive, spawned, lockHolders, fixed, up, boxes_stopped, impls,
                 locals, history>>

\* The boxes shutdown() stops: the cached BoxImpl, if its status is Running.
RunningBoxes(p) ==
  IF by_id[p] # 0 /\ impls[by_id[p]].status = "Running" THEN {by_id[p]} ELSE {}

\* Runtime.shutdown, first half: the runtime's token is cancelled, and with it
\* the token of every BoxImpl of this runtime; the running boxes are collected.
ShutdownCall(t, p) ==
  /\ rt[p].down = "no"
  /\ BeginRuntimeCall(t, p, "shutdown")
  /\ impls' = [i \in ImplIds |->
                 IF impls[i].used /\ impls[i].proc = p
                 THEN Cancelled(impls[i]) ELSE impls[i]]
  /\ IF RunningBoxes(p) = {} THEN
       /\ rt' = [rt EXCEPT ![p] = [cancelled |-> TRUE, down |-> "returned",
                                  by |-> 0, was |-> 0]]
       /\ self' = [self EXCEPT ![t] = 0]
       /\ Ret(t, "Ok")
     ELSE
       LET i == CHOOSE j \in RunningBoxes(p) : TRUE IN
         /\ rt' = [rt EXCEPT ![p] = [cancelled |-> TRUE, down |-> "stopping",
                                    by |-> t, was |-> i]]
         /\ self' = [self EXCEPT ![t] = i]
         /\ Goto(t, "shutstop")
  /\ UNCHANGED <<shared, lockHolders, auto_remove, machines, counters, up,
                 caches, boxes_stopped, locals, history>>

\* Runtime.shutdown, second half: stop() is called on the running box.
ShutdownStop(t) ==
  /\ pc[t] = "shutstop"
  /\ StopEnter(t, self[t])
  /\ UNCHANGED <<db, pidFile, spawned, lockHolders, fixed, up, caches,
                 boxes_stopped, op, self, locals, calls, stopDone, everUp,
                 dbFailed, crashes, midCrash, builds>>

\* Runtime.shutdown returns once the stop() it called has returned.
ShutdownReturn(p) ==
  /\ up[p]
  /\ rt[p].down = "stopping"
  /\ op[rt[p].by] = "shutdown"
  /\ pc[rt[p].by] = "idle"
  /\ rt' = [rt EXCEPT ![p].down = "returned"]
  /\ UNCHANGED <<shared, lockHolders, auto_remove, machines, counters, up,
                 caches, boxes_stopped, impls, pc, op, self, locals, calls, res,
                 history>>

\* ------------------------------------------------- wait_for_guest_ready
\* The clock advances by one poll interval per step; what happens between two
\* polls happens at the earlier clock value.

\* wait_for_guest_ready up to the select!: the transport must be a Unix
\* socket and the listener must bind.  shim_pid is Some or None; the shim may
\* be dead already.
ReadyWaitBegin ==
  /\ ready.phase = "idle"
  /\ \E unix \in BOOLEAN, bound \in BOOLEAN, some \in BOOLEAN, running \in BOOLEAN :
       ready' =
         IF ~unix THEN [ready EXCEPT !.phase = "done", !.outcome = "NotUnixSocket"]
         ELSE IF ~bound THEN [ready EXCEPT !.phase = "done", !.outcome = "BindFailed"]
         ELSE [ready EXCEPT !.phase = "waiting", !.monitored = some,
                            !.shimAlive = running,
                            !.diedAt = IF running THEN Never ELSE 0]
  /\ UNCHANGED <<box, vmm, guest, images, cli>>

\* wait_for_guest_ready, lines 86-93: the UnixListener is bound there, on a
\* path any stale socket was removed from, and lives until the call returns.
Listening(w) == w.phase = "waiting"

\* The guest, started by VmmSpawn, connects to the ready socket once its gRPC
\* server is serving: before the host has bound the listener the connection
\* is refused.
GuestSignalsUnheard ==
  /\ ready.phase = "idle"
  /\ ~ready.refused
  /\ ~Listening(ready)
  /\ ready' = [ready EXCEPT !.refused = TRUE]
  /\ UNCHANGED <<box, vmm, guest, images, cli>>

\* listener.accept() returns a connection: only a running shim has a guest.
GuestConnects ==
  /\ Listening(ready)
  /\ ready.shimAlive
  /\ ready' = [ready EXCEPT !.phase = "done", !.outcome = "Ok"]
  /\ UNCHANGED <<box, vmm, guest, images, cli>>

\* listener.accept() returns an error.
AcceptFails ==
  /\ ready.phase = "waiting"
  /\ ready' = [ready EXCEPT !.phase = "done", !.outcome = "AcceptFailed"]
  /\ UNCHANGED <<box, vmm, guest, images, cli>>

\* The shim process exits while the host waits.
ShimDies ==
  /\ ready.phase = "waiting"
  /\ ready.shimAlive
  /\ ready' = [ready EXCEPT !.shimAlive = FALSE, !.diedAt = ready.clock]
  /\ UNCHANGED <<box, vmm, guest, images, cli>>

\* The box's token is cancelled while the host waits; the wait holds no token.
TokenCancelled ==
  /\ ready.phase = "waiting"
  /\ ~ready.cancelled
  /\ ready' = [ready EXCEPT !.cancelled = TRUE]
  /\ UNCHANGED <<box, vmm, guest, images, cli>>

ProcessExitFires_Never(w) == FALSE

\* wait_for_process_exit after a sleep: a None pid pends forever.
ProcessExitFires(w) == w.monitored /\ ~w.shimAlive

\* One poll interval passes: wait_for_process_exit wakes up, and the timeout
\* elapses at ReadyTimeoutMs; select! takes either branch when both are ready.
PollTick ==
  /\ ready.phase = "waiting"
  /\ ready.clock < ReadyTimeoutMs
  /\ LET now == ready.clock + ProcessPollMs
         fired == (IF ProcessExitFires(ready) THEN {"ShimDied"} ELSE {})
                    \cup (IF now >= ReadyTimeoutMs THEN {"Timeout"} ELSE {})
     IN IF fired = {}
        THEN ready' = [ready EXCEPT !.clock = now]
        ELSE \E o \in fired :
               ready' = [ready EXCEPT !.clock = now, !.phase = "done", !.outcome = o]
  /\ UNCHANGED <<box, vmm, guest, images, cli>>

\* ---------------------------------------------------- ShimHandler::stop
\* proc is the shim process: "running", "zombie" (exited, not yet reaped) or
\* "gone" (reaped; the PID no longer exists).  `ours`: the process is a child
\* of this host process.  A handler built by from_child always has its own
\* child; one built by from_pid may or may not.

\* stop() up to the first poll: SIGTERM is sent in both modes.
VmmStopBegin ==
  /\ vmm.phase = "idle"
  /\ \E mode \in {"child", "attached"}, ours \in BOOLEAN,
        proc \in {"running", "zombie", "gone"} :
       /\ mode = "child" => ours
       /\ vmm' = [vmm EXCEPT !.phase = "polling", !.mode = mode, !.ours = ours,
                             !.proc = proc, !.term = TRUE]
  /\ UNCHANGED <<box, ready, guest, images, cli>>

\* The shim exits (on SIGTERM, on SIGKILL, or on its own).
ProcExits ==
  /\ vmm.phase # "idle"
  /\ vmm.proc = "running"
  /\ vmm' = [vmm EXCEPT !.proc = "zombie"]
  /\ UNCHANGED <<box, ready, guest, images, cli>>

\* Someone other than this handler reaps the exited shim: its parent when it
\* is not our child, another wait() of the host process when it is.
ReapedElsewhere ==
  /\ vmm.phase # "idle"
  /\ vmm.proc = "zombie"
  /\ vmm' = [vmm EXCEPT !.proc = "gone"]
  /\ UNCHANGED <<box, ready, guest, images, cli>>

GraceOver_AtOnce(elapsed) == TRUE

\* start.elapsed().as_millis() > GRACEFUL_SHUTDOWN_TIMEOUT_MS
GraceOver(elapsed) == elapsed > GRACEFUL_SHUTDOWN_TIMEOUT_MS

\* SIGKILL is sent at the current elapsed time.
Kill(v) == [v EXCEPT !.kill = TRUE, !.killAt = v.elapsed]

\* One turn of the Child-mode loop: try_wait reaps an exited child, fails
\* when the child is no longer there to wait for, else reports it running;
\* process.wait() after process.kill() blocks until the child is reaped.
ChildPoll ==
  /\ vmm.phase = "polling"
  /\ vmm.mode = "child"
  /\ vmm' =
       IF vmm.proc = "zombie" THEN [vmm EXCEPT !.proc = "gone", !.phase = "done"]
       ELSE IF vmm.proc = "gone"
       THEN [Kill(vmm) EXCEPT !.waitErr = TRUE, !.phase = "done"]
       ELSE IF GraceOver(vmm.elapsed)
       THEN [Kill(vmm) EXCEPT !.proc = "gone", !.phase = "done"]
       ELSE [vmm EXCEPT !.elapsed = @ + StopPollMs]
  /\ UNCHANGED <<box, ready, guest, images, cli>>

\* One turn of the attached-mode loop: waitpid(WNOHANG) reaps an exited child
\* of ours (result > 0), reports a running child of ours (0), and fails
\* otherwise (< 0), when kill(pid, 0) tells whether the PID still exists;
\* after the grace period SIGKILL is sent and stop() returns.
AttachedPoll ==
  /\ vmm.phase = "polling"
  /\ vmm.mode = "attached"
  /\ vmm' =
       IF vmm.ours /\ vmm.proc = "zombie"
       THEN [vmm EXCEPT !.proc = "gone", !.phase = "done"]
       ELSE IF vmm.proc = "gone" THEN [vmm EXCEPT !.phase = "done"]
       ELSE IF GraceOver(vmm.elapsed) THEN [Kill(vmm) EXCEPT !.phase = "done"]
       ELSE [vmm EXCEPT !.elapsed = @ + StopPollMs]
  /\ UNCHANGED <<box, ready, guest, images, cli>>

\* ShimHandler::is_running: is_process_alive(pid), kill(pid, 0) succeeds.
is_running(v) == v.proc # "gone"

\* ------------------------------------------------------------ Guest.Init
\* The guest receives an Init request: its rootfs (with a strategy) may be
\* missing and a network may be specified.  The handler then waits for
\* init_state's mutex.
InitReceived(r) ==
  /\ guest.pc[r] = "idle"
  /\ \A q \in Inits : q < r => guest.pc[q] # "idle"
  /\ \E rootfs \in BOOLEAN, network \in BOOLEAN :
       guest' = [guest EXCEPT !.pc[r] = "wait", !.rootfs[r] = rootfs,
                              !.network[r] = network]
  /\ UNCHANGED <<box, ready, vmm, images, cli>>

InitAnswer(g, r, result) ==
  [g EXCEPT !.pc[r] = "done", !.result[r] = result, !.lock = 0]

AlreadyInitialized_Never(g) == FALSE

\* init(): "Check if already initialized".
AlreadyInitialized(g) == g.initialized

\* init(), lines 29-38: the mutex is taken; an initialized guest answers with
\* the error and the guard is dropped.
InitLocked(r) ==
  /\ guest.pc[r] = "wait"
  /\ guest.lock = 0
  /\ guest' = IF AlreadyInitialized(guest)
              THEN InitAnswer(guest, r, "AlreadyInitialized")
              ELSE [guest EXCEPT !.pc[r] = "mount", !.lock = r]
  /\ UNCHANGED <<box, ready, vmm, images, cli>>

\* "Mark as initialized" and the Success response.
InitSucceeds(g, r) == [InitAnswer(g, r, "Success") EXCEPT !.initialized = TRUE]

\* init(), lines 40-91: mount_volumes runs and may fail; then the rootfs and
\* its strategy must be there.
InitMounts(r) ==
  /\ guest.pc[r] = "mount"
  /\ \E ok \in BOOLEAN :
       LET g == [guest EXCEPT !.mounts = @ + 1] IN
         guest' = IF ~ok THEN InitAnswer(g, r, "MountFailed")
                  ELSE IF ~g.rootfs[r] THEN InitAnswer(g, r, "MissingRootfs")
                  ELSE IF g.network[r] THEN [g EXCEPT !.pc[r] = "network"]
                  ELSE InitSucceeds(g, r)
  /\ UNCHANGED <<box, ready, vmm, images, cli>>

\* init(), lines 93-118: configure_network_from_config runs and may fail.
InitConfiguresNetwork(r) ==
  /\ guest.pc[r] = "network"
  /\ \E ok \in BOOLEAN :
       LET g == [guest EXCEPT !.networks = @ + 1] IN
         guest' = IF ok THEN InitSucceeds(g, r)
                  ELSE InitAnswer(g, r, "NetworkFailed")
  /\ UNCHANGED <<box, ready, vmm, images, cli>>

\* The connection is closed while the handler is suspended at an await (the
\* mutex, the network configuration): the future is dropped, and with it the
\* guard if it holds the mutex.
InitDropped(r) ==
  /\ guest.pc[r] \in {"wait", "network"}
  /\ guest' = [guest EXCEPT !.pc[r] = "done", !.result[r] = "Dropped",
                            !.lock = IF guest.lock = r THEN 0 ELSE guest.lock]
  /\ UNCHANGED <<box, ready, vmm, images, cli>>

\* ------------------------------------------------------------ image index
\* serde_json::to_string of a Vec<String>, as its tokens: "[", the strings
\* in quotes with "," between them, "]".
RECURSIVE json_elements(_)
json_elements(layers) ==
  IF layers = <<>> THEN <<>>
  ELSE <<"\"", Head(layers), "\"">>
         \o (IF Tail(layers) = <<>> THEN <<>> ELSE <<",">>)
         \o json_elements(Tail(layers))

to_string(layers) == <<"[">> \o json_elements(layers) \o <<"]">>

\* serde_json::from_str::<Vec<String>>: the strings between the quotes.
from_str(layers_json) ==
  SelectSeq(SubSeq(layers_json, 2, Len(layers_json) - 1),
            LAMBDA token : token \notin {"\"", ","})

\* The row upsert binds for an image: layers as JSON, complete as 1 or 0.
ImageRow(reference, image) ==
  [reference |-> reference, manifest_digest |-> image.manifest_digest,
   config_digest |-> image.config_digest, layers |-> to_string(image.layers),
   cached_at |-> image.cached_at, complete |-> IF image.complete THEN 1 ELSE 0]

\* The CachedImage get and list_all build from a row.
RowImage(row) ==
  [manifest_digest |-> row.manifest_digest, config_digest |-> row.config_digest,
   layers |-> from_str(row.layers), cached_at |-> row.cached_at,
   complete |-> row.complete # 0]

\* SELECT ... WHERE reference = ?1.
RowsOf(reference) == {row \in images.rows : row.reference = reference}

\* ImageIndexStore::get: the image of the row of the reference, None ({})
\* when there is no row.
get(reference) == {RowImage(row) : row \in RowsOf(reference)}

\* A sequence of the rows of a set, each once, in any order.
Orderings(rows) ==
  {seq \in [1..Cardinality(rows) -> rows] :
     \A j, k \in 1..Cardinality(rows) : j # k => seq[j] # seq[k]}

\* ImageIndexStore::list_all: what SELECT ... ORDER BY cached_at DESC may
\* return, as pairs of reference and CachedImage.
list_all ==
  {[k \in 1..Len(seq) |-> <<seq[k].reference, RowImage(seq[k])>>] :
     seq \in {o \in Orderings(images.rows) :
                \A j, k \in 1..Len(o) : j < k => o[j].cached_at >= o[k].cached_at}}

upsert_Insert(reference, image) ==
  /\ images' = [images EXCEPT
                  !.rows = @ \cup {ImageRow(reference, image)},
                  !.latest[reference] = {image},
                  !.ret = [op |-> "upsert", removed |-> FALSE, existed |-> FALSE]]
  /\ UNCHANGED <<box, ready, vmm, guest, cli>>

\* ImageIndexStore::upsert: INSERT ... ON CONFLICT(reference) DO UPDATE SET
\* every column to the given image's.
upsert(reference, image) ==
  /\ images' = [images EXCEPT
                  !.rows = (@ \ RowsOf(reference)) \cup {ImageRow(reference, image)},
                  !.latest[reference] = {image},
                  !.ret = [op |-> "upsert", removed |-> FALSE, existed |-> FALSE]]
  /\ UNCHANGED <<box, ready, vmm, guest, cli>>

\* ImageIndexStore::remove: DELETE ... WHERE reference = ?1; returns
\* rows_affected > 0.
ImageRemove(reference) ==
  /\ images' = [images EXCEPT
                  !.rows = @ \ RowsOf(reference),
                  !.latest[reference] = {},
                  !.ret = [op |-> "remove",
                           removed |-> Cardinality(RowsOf(reference)) > 0,
                           existed |-> images.latest[reference] # {}]]
  /\ UNCHANGED <<box, ready, vmm, guest, cli>>

\* ------------------------------------------------------------ run command
\* setup_io_streaming: a task per stream the execution hands out (stdout,
\* stderr), and a stdin task for an interactive run.
SetupIo ==
  /\ cli.phase = "setup"
  /\ \E stdout \in BOOLEAN, stderr \in BOOLEAN, interactive \in BOOLEAN :
       cli' = [cli EXCEPT
                 !.phase = "waiting",
                 !.io_tasks = (IF stdout THEN 1 ELSE 0) + (IF stderr THEN 1 ELSE 0),
                 !.stdin = IF interactive THEN "forwarding" ELSE "none"]
  /\ UNCHANGED <<box, ready, vmm, guest, images>>

\* A stdout or stderr forwarding task reaches the end of its stream.
IoTaskEnds ==
  /\ cli.phase = "waiting"
  /\ cli.io_tasks > 0
  /\ cli' = [cli EXCEPT !.io_tasks = @ - 1]
  /\ UNCHANGED <<box, ready, vmm, guest, images>>

LoopReturns_OnExit(io_done, has_status) == has_status

\* wait_for_completion, lines 232-234 and 239-242: a branch returns the exit
\* status when the other one has been taken before.
LoopReturns(io_done, has_status) == io_done /\ has_status

\* The select! branch of exit_fut (if exit_status.is_none()): an error of
\* wait() is returned at once; else the status is kept, the stdin task is
\* aborted, and the status is returned if the forwarding is done.
ExitArrives ==
  /\ cli.phase = "waiting"
  /\ ~cli.has_status
  /\ \/ cli' = [cli EXCEPT !.phase = "failed", !.events = Append(@, "error")]
     \/ \E exit_code \in ExitCodes :
          cli' = [cli EXCEPT
                    !.has_status = TRUE,
                    !.exit_code = exit_code,
                    !.stdin = IF @ = "forwarding" THEN "aborted" ELSE @,
                    !.events = Append(@, "exit"),
                    !.phase = IF LoopReturns(cli.io_done, TRUE)
                              THEN "completed" ELSE @]
  /\ UNCHANGED <<box, ready, vmm, guest, images>>

\* The select! branch of io_fut (if !io_done): every forwarding task has been
\* awaited; the status is returned if it has arrived.
IoDone ==
  /\ cli.phase = "waiting"
  /\ ~cli.io_done
  /\ cli.io_tasks = 0
  /\ cli' = [cli EXCEPT
                !.io_done = TRUE,
                !.events = Append(@, "io"),
                !.phase = IF LoopReturns(TRUE, cli.has_status)
                          THEN "completed" ELSE @]
  /\ UNCHANGED <<box, ready, vmm, guest, images>>

\* The select! branches of sig_int, sig_term and sig_hup: the signal is sent
\* to the execution and the loop goes on.
HostSignal(sig) ==
  /\ cli.phase = "waiting"
  /\ Len(SelectSeq(cli.events, LAMBDA e : e \in HostSignals)) < MaxHostSignals
  /\ cli' = [cli EXCEPT !.events = Append(@, sig)]
  /\ UNCHANGED <<box, ready, vmm, guest, images>>

\* i32::abs.
abs(code) == IF code < 0 THEN 0 - code ELSE code

run_exit_code_Raw(exit_code) == exit_code

\* BoxRunner::run, lines 79-85: "Convert to shell convention".
run_exit_code(exit_code) ==
  IF exit_code < 0 THEN 128 + abs(exit_code) ELSE exit_code

\* std::process::exit(code) as the parent of the command sees it.
process_exit(code) == code % 2^ExitStatusBits

\* BoxRunner::run, lines 77-89: a non-zero exit code ends the process with
\* the converted code, else run returns Ok and the command exits with 0.
RunExits ==
  /\ cli.phase = "completed"
  /\ cli' = [cli EXCEPT !.phase = "exited",
                        !.status = IF cli.exit_code # 0
                                   THEN process_exit(run_exit_code(cli.exit_code))
                                   ELSE 0]
  /\ UNCHANGED <<box, ready, vmm, guest, images>>

\* ------------------------------------------------------ functions called
\* An Option is the empty set (None) or a set of one value (Some).

\* The largest value given to --cpus.
MaxCpusFlag == 300

\* What --memory is given as, in MiB.
MemoryFlags == {512}

\* `as u8` of a u32.
as_u8(n) == n % 2^8

\* u32::min.
min(a, b) == IF a <= b THEN a ELSE b

\* ResourceFlags::apply_to: a given --cpus is capped at 255 and cast to u8, a
\* given --memory is taken as it is; an option whose flag is absent is kept.
apply_to(flags, opts) ==
  [opts EXCEPT
     !.cpus = IF flags.cpus = {} THEN @
              ELSE {as_u8(min(cpus, 255)) : cpus \in flags.cpus},
     !.memory_mib = IF flags.memory = {} THEN @ ELSE flags.memory]

\* The ResourceFlags of a command line, about to be applied to
\* BoxOptions::default() (create_box).
FlagCalls ==
  [fn : {"apply_to"},
   flags : [cpus : {{}} \cup {{n} : n \in 0..MaxCpusFlag},
            memory : {{}} \cup {{m} : m \in MemoryFlags}],
   opts : {[cpus |-> {}, memory_mib |-> {}]},
   returned : {FALSE}]

\* self.args.resource.apply_to(&mut options).
ApplyFlags ==
  /\ call.fn = "apply_to"
  /\ ~call.returned
  /\ call' = [call EXCEPT !.opts = apply_to(call.flags, call.opts),
                          !.returned = TRUE]
  /\ UNCHANGED <<system, ready, vmm, guest, images, cli>>

\* executor_const::ENV_VAR and executor_const::CONTAINER_KEY.
ENV_VAR == "BOXLITE_EXECUTOR"
CONTAINER_KEY == "container"

\* The entries a caller's environment may hold, at most MaxEnv of them; a
\* value is the sequence of its parts.
MaxEnv == 2
Envs ==
  UNION {[1..n -> {ENV_VAR, "PATH"} \X {<<"mine">>, <<"/bin">>}] : n \in 0..MaxEnv}

\* Working directories.
Dirs == {"/work", "/srv"}

\* format!("{}={}", key, id).
format(key, id) == <<key, "=", id>>

\* BoxCommand::env: the pair is added to the command's environment, which is
\* created if the command has none.
env(command, key, value) ==
  [command EXCEPT
     !.env = IF @ = {} THEN {<<(<<key, value>>)>>}
             ELSE {Append(e, <<key, value>>) : e \in @}]

\* BoxCommand::working_dir.
working_dir(command, dir) == [command EXCEPT !.working_dir = {dir}]

HasEnvVar_Never(command) == FALSE

\* exec(), lines 207-211: the command has an environment and one of its keys
\* is ENV_VAR.
HasEnvVar(command) ==
  \E e \in command.env : \E k \in 1..Len(e) : e[k][1] = ENV_VAR

\* exec(), lines 206-225: the command as it is sent to the guest.
exec_command(command, container_id, options) ==
  LET injected == IF HasEnvVar(command) THEN command
                  ELSE env(command, ENV_VAR, format(CONTAINER_KEY, container_id))
  IN IF injected.working_dir = {} /\ options.working_dir # {}
     THEN working_dir(injected, CHOOSE dir \in options.working_dir : TRUE)
     ELSE injected

\* exec() called with a command on a box with options.
ExecCalls ==
  [fn : {"exec"},
   command : [env : {{}} \cup {{e} : e \in Envs},
              working_dir : {{}} \cup {{d} : d \in Dirs}],
   container_id : {"cid"},
   options : [working_dir : {{}} \cup {{d} : d \in Dirs}],
   sent : {{}},
   returned : {FALSE}]

\* exec() up to the guest call: `sent` is the command handed to the guest.
ExecPrepares ==
  /\ call.fn = "exec"
  /\ ~call.returned
  /\ call' = [call EXCEPT
                 !.sent = {exec_command(call.command, call.container_id, call.options)},
                 !.returned = TRUE]
  /\ UNCHANGED <<system, ready, vmm, guest, images, cli>>

\* A path is the sequence of its components, a component the sequence of
\* its characters (a name of the layout counts as one character).

\* The characters of a container id: a letter, the separator, the dot and a
\* control character; an id has at most MaxIdLen of them.
MaxIdLen == 5
IdChars == {"a", "/", ".", "\\x01"}
ContainerIds == UNION {[1..n -> IdChars] : n \in 0..MaxIdLen}

\* Path::components of a string: its parts between separators.
RECURSIVE components(_, _)
components(id, part) ==
  IF id = <<>> THEN (IF part = <<>> THEN <<>> ELSE <<part>>)
  ELSE IF Head(id) = "/"
       THEN (IF part = <<>> THEN <<>> ELSE <<part>>) \o components(Tail(id), <<>>)
       ELSE components(Tail(id), Append(part, Head(id)))

\* PathBuf::join: an absolute argument replaces the path, a relative one is
\* appended to it.
join(path, id) ==
  IF id # <<>> /\ Head(id) = "/" THEN components(id, <<>>)
  ELSE path \o components(id, <<>>)

\* SharedGuestLayout::containers_dir and GuestLayout::containers_dir:
\* base.join(dirs::CONTAINERS).
containers_dir(base) == join(base, <<"containers">>)

\* SharedGuestLayout::container and GuestLayout::container_bundle_dir.
container(base, container_id) == join(containers_dir(base), container_id)

\* A layout's base directory and a container id: /run/boxlite/shared for
\* SharedGuestLayout::container, /run/boxlite for
\* GuestLayout::container_bundle_dir.
LayoutCalls ==
  [fn : {"container"},
   base : {<< <<"run">>, <<"boxlite">>, <<"shared">> >>,
           << <<"run">>, <<"boxlite">> >>},
   container_id : ContainerIds,
   path : {<<>>},
   returned : {FALSE}]

\* The layout derives the container's directory.
LayoutDerives ==
  /\ call.fn = "container"
  /\ ~call.returned
  /\ call' = [call EXCEPT !.path = container(call.base, call.container_id),
                          !.returned = TRUE]
  /\ UNCHANGED <<system, ready, vmm, guest, images, cli>>

FirstHost == {1}

Next ==
  \/ \E p \in FirstHost : Open(p)
  \/ \E p \in FirstHost : Crash(p)
  \/ \E p \in FirstHost : Get(p)
  \/ \E p \in FirstHost : Remove(p)
  \/ \E pid \in 1..MaxOps : ShimExit(pid)
  \/ \E t \in Threads, i \in ImplIds : StartCall(t, i)
  \/ \E t \in Threads, i \in ImplIds, o \in LiveOps : LiveCall(t, i, o)
  \/ \E t \in Threads, i \in ImplIds : StopBegin(t, i)
  \/ \E t \in Threads : LiveStateEnter(t)
  \/ \E t \in Threads : AcquireLock(t)
  \/ \E t \in Threads : RunStage(t)
  \/ \E t \in Threads : InitFinish(t)
  \/ \E t \in Threads : Body(t)
  \/ \E t \in Threads : StopFinish(t)

Spec == Init /\ [][Next]_vars

\* Several host processes have the runtime open at once and share the box's
\* row, shim.pid and file lock.
NextHosts ==
  \/ \E p \in Procs : Open(p)
  \/ \E p \in Procs : Get(p)
  \/ \E p \in Procs : Remove(p)
  \/ \E pid \in 1..MaxHostOps : ShimExit(pid)
  \/ \E t \in Threads, i \in ImplIds : opsBegun < MaxHostOps /\ StartCall(t, i)
  \/ \E t \in Threads, i \in ImplIds, o \in LiveOps :
       opsBegun < MaxHostOps /\ LiveCall(t, i, o)
  \/ \E t \in Threads, i \in ImplIds : opsBegun < MaxHostOps /\ StopBegin(t, i)
  \/ \E t \in Threads : LiveStateEnter(t)
  \/ \E t \in Threads : AcquireLock(t)
  \/ \E t \in Threads : RunStage(t)
  \/ \E t \in Threads : InitFinish(t)
  \/ \E t \in Threads : Body(t)
  \/ \E t \in Threads : StopFinish(t)

SpecHosts == Init /\ [][NextHosts]_vars

\* A row left behind by an earlier host process, in any status; a Running row
\* comes with the shim that process had spawned.
InitAnyRow ==
  /\ \E s \in BoxStatus :
       /\ db = [exists |-> TRUE, status |-> s, pid |-> IF s = "Running" THEN 1 ELSE 0,
                lock_id |-> TRUE]
       /\ pidFile = (IF s = "Running" THEN 1 ELSE 0)
       /\ alive = (IF s = "Running" THEN {1} ELSE {})
       /\ spawned = (IF s = "Running" THEN 1 ELSE 0)
  /\ InitCommon
  /\ call = NoCall

SpecAnyRow == InitAnyRow /\ [][Next]_vars

\* One wait_for_guest_ready call on its own.
NextReady ==
  \/ ReadyWaitBegin
  \/ GuestSignalsUnheard
  \/ GuestConnects
  \/ AcceptFails
  \/ ShimDies
  \/ TokenCancelled
  \/ PollTick

SpecReady == Init /\ [][NextReady]_vars

\* One ShimHandler::stop call on its own.
NextVmmStop ==
  \/ VmmStopBegin
  \/ ProcExits
  \/ ReapedElsewhere
  \/ ChildPoll
  \/ AttachedPoll

SpecVmmStop == Init /\ [][NextVmmStop]_vars

\* One host process whose runtime can be shut down.
NextShutdown ==
  \/ \E p \in FirstHost : Open(p)
  \/ \E p \in FirstHost : Crash(p)
  \/ \E p \in FirstHost : Get(p)
  \/ \E p \in FirstHost : Remove(p)
  \/ \E t \in Threads, p \in FirstHost : CreateCall(t, p)
  \/ \E t \in Threads, p \in FirstHost : ShutdownCall(t, p)
  \/ \E t \in Threads : ShutdownStop(t)
  \/ \E p \in FirstHost : ShutdownReturn(p)
  \/ \E t \in Threads, i \in ImplIds : StartCall(t, i)
  \/ \E t \in Threads, i \in ImplIds, o \in LiveOps : LiveCall(t, i, o)
  \/ \E t \in Threads, i \in ImplIds : StopBegin(t, i)
  \/ \E t \in Threads : LiveStateEnter(t)
  \/ \E t \in Threads : AcquireLock(t)
  \/ \E t \in Threads : RunStage(t)
  \/ \E t \in Threads : InitFinish(t)
  \/ \E t \in Threads : Body(t)
  \/ \E t \in Threads : StopFinish(t)

SpecShutdown == Init /\ [][NextShutdown]_vars

\* One host process that creates, starts, stops and removes the box.
NextRuntime ==
  \/ \E p \in FirstHost : Open(p)
  \/ \E p \in FirstHost : Get(p)
  \/ \E t \in Threads, p \in FirstHost : CreateCall(t, p)
  \/ \E t \in Threads, p \in FirstHost : RemoveCall(t, p)
  \/ \E t \in Threads, i \in ImplIds : StartCall(t, i)
  \/ \E t \in Threads, i \in ImplIds : StopBegin(t, i)
  \/ \E t \in Threads : LiveStateEnter(t)
  \/ \E t \in Threads : AcquireLock(t)
  \/ \E t \in Threads : RunStage(t)
  \/ \E t \in Threads : InitFinish(t)
  \/ \E t \in Threads : StopFinish(t)

SpecRuntime == Init /\ [][NextRuntime]_vars

\* One guest agent and the Init requests it receives.
NextGuest ==
  \/ \E r \in Inits : InitReceived(r)
  \/ \E r \in Inits : InitLocked(r)
  \/ \E r \in Inits : InitMounts(r)
  \/ \E r \in Inits : InitConfiguresNetwork(r)
  \/ \E r \in Inits : InitDropped(r)

SpecGuest == Init /\ [][NextGuest]_vars

\* The image index under any sequence of upsert and remove calls.
NextImages ==
  \/ \E reference \in References, image \in CachedImages : upsert(reference, image)
  \/ \E reference \in References : ImageRemove(reference)

SpecImages == Init /\ [][NextImages]_vars

\* One `boxlite run` in the foreground, from the guest's exit on.
NextRun ==
  \/ SetupIo
  \/ IoTaskEnds
  \/ ExitArrives
  \/ IoDone
  \/ \E sig \in HostSignals : HostSignal(sig)
  \/ RunExits

SpecRun == Init /\ [][NextRun]_vars

\* One call of a function, on any of its arguments.
InitCalls ==
  /\ db = [exists |-> TRUE, status |-> "Configured", pid |-> 0, lock_id |-> TRUE]
  /\ pidFile = 0
  /\ alive = {}
  /\ spawned = 0
  /\ InitCommon
  /\ call \in FlagCalls \cup ExecCalls \cup LayoutCalls

NextCalls ==
  \/ ApplyFlags
  \/ ExecPrepares
  \/ LayoutDerives

SpecCalls == InitCalls /\ [][NextCalls]_vars

\* ----------------------------------------------------------------- claims
\* Thread t begins a call in this step.
Begins(t) == opsBegun' = opsBegun + 1 /\ last' = t

\* A call other than stop() begun on a BoxImpl of the set `stopped` returns
\* Stopped at once and leaves the BoxImpl, the row and shim.pid as they were.
RefusedAfterStop(stopped) ==
  \A t \in Threads :
    (Begins(t) /\ op'[t] # "stop" /\ self'[t] \in stopped)
      => /\ pc'[t] = "idle"
         /\ res'[t] = "Stopped"
         /\ UNCHANGED <<impls, db, pidFile, builds>>

\* C1, as the code has it: once a stop() that went past its early exit has
\* returned on a BoxImpl, every later start, exec, metrics, copy_into or
\* copy_out on that BoxImpl returns Stopped without initializing the LiveState
\* and without changing the state or the database.
C1_AfterFullStop == [][RefusedAfterStop(stopDone)]_vars

\* C1: a call begun after a full stop() had returned was answered Stopped.
C1_Witness ==
  \E t \in Threads :
    late[t] /\ op[t] \in LiveOps \cup {"start"} /\ pc[t] = "idle" /\ res[t] = "Stopped"

\* C1, as stated: the same after any stop() that has returned on the BoxImpl,
\* the one taking the early exit included.
C1_AfterAnyStop == [][RefusedAfterStop(stopRet)]_vars

\* C2, as stated: when stop() and exec() overlapped on one BoxImpl and both
\* have returned (stop with Ok, exec with Stopped), the status is Stopped in memory and in the
\* row and no shim is running.  (Two calls in all, so every shim was started
\* through that BoxImpl; no database write failed and the row was not removed.)
C2_StoppedAfterStopAndExec ==
  \A t, u \in Threads :
    ( /\ op[t] = "exec" /\ op[u] = "stop"
      /\ self[t] # 0 /\ self[t] = self[u]
      /\ conc[t] /\ conc[u]
      /\ pc[t] = "idle" /\ pc[u] = "idle" /\ res[u] = "Ok" /\ res[t] = "Stopped"
      /\ opsBegun = 2 /\ crashes = 0 /\ ~dbFailed /\ db.exists )
    => /\ impls[self[t]].status = "Stopped"
       /\ db.status = "Stopped"
       /\ alive = {}

\* C3, as stated: when two start() calls from two host processes overlapped
\* and both have returned Ok, only one VMM was spawned.
C3_OneSpawnForTwoStarts ==
  \A t, u \in Threads :
    ( /\ t # u /\ op[t] = "start" /\ op[u] = "start"
      /\ self[t] # 0 /\ self[u] # 0
      /\ impls[self[t]].proc # impls[self[u]].proc
      /\ conc[t] /\ conc[u]
      /\ pc[t] = "idle" /\ pc[u] = "idle" /\ res[t] = "Ok" /\ res[u] = "Ok" )
    => spawned <= 1

\* The status transitions of the state machine.
Edges ==
  {<<"Configured", "Running">>, <<"Stopped", "Running">>,
   <<"Configured", "Stopped">>, <<"Running", "Stopped">>}

\* What stop() does to a status outside the state machine.
StopEdges == {<<"Stopping", "Stopped">>, <<"Unknown", "Stopped">>}

\* What a start writes over a row that a failed save of stop() left behind.
LaggingRowEdges == {<<"Stopping", "Running">>, <<"Unknown", "Running">>}

\* Every change that a call makes to the row's status is in `allowed` (a
\* runtime that opens or dies is no call).
RowMoves(allowed) ==
  (up' = up /\ db.exists /\ db'.exists /\ db'.status # db.status)
    => <<db.status, db'.status>> \in allowed

\* Every change of a BoxImpl's status is in `allowed`.
ImplMoves(allowed) ==
  \A i \in ImplIds :
    (impls[i].used /\ impls'[i].used /\ impls'[i].status # impls[i].status)
      => <<impls[i].status, impls'[i].status>> \in allowed

\* Thread t begins start() on a BoxImpl that is Stopping or Unknown.
StartsFromOther(t) ==
  Begins(t) /\ op'[t] = "start" /\ impls[self'[t]].status \in {"Stopping", "Unknown"}

C5_FailedStartStaysConfigured ==
  \A t \in Threads :
    ( /\ op[t] = "start" /\ atBegin[t] = "Configured"
      /\ pc[t] = "idle" /\ res[t] = "Err"
      /\ opsBegun = 1 /\ crashes = 0 /\ db.exists )
    => /\ impls[self[t]].status = "Configured"
       /\ db.status = "Configured"

\* Thread t takes a step of its build.
BuildStep(t) == pc[t] = "stage" /\ (pc'[t] # pc[t] \/ stageIdx'[t] # stageIdx[t])

\* C6: a host process that opens the runtime while shim.pid exists leaves the
\* row Running with the file's PID if that process is alive, and Stopped
\* otherwise; a build on a Running state (reattach) spawns no shim.
C6_Reattach ==
  [][ /\ ((\E p \in Procs : ~up[p] /\ up'[p]) /\ db.exists /\ pidFile # 0)
           => IF pidFile \in alive
              THEN /\ db'.status = "Running" /\ db'.pid = pidFile
                   /\ UNCHANGED <<pidFile, alive, spawned>>
              ELSE /\ db'.status = "Stopped"
                   /\ pidFile' = 0
                   /\ UNCHANGED <<alive, spawned>>
      /\ \A t \in Threads :
           (BuildStep(t) /\ snap[t] = "Running")
             => /\ spawned' = spawned
                /\ alive' \subseteq alive ]_vars

\* C6: the shim whose parent died between spawn and state write is the one a
\* later host process is attached to, and no other shim was spawned.
C6_Witness ==
  /\ midCrash # 0
  /\ midCrash \in alive
  /\ spawned = 1
  /\ \E i \in ImplIds :
       /\ impls[i].used /\ impls[i].live = "set"
       /\ impls[i].status = "Running" /\ impls[i].handler = midCrash
       /\ db.status = "Running" /\ db.pid = midCrash

\* The threads inside init_live_state of BoxImpl i.
Initializers(i) == {t \in Threads : pc[t] \in {"lock", "stage", "finish"} /\ self[t] = i}

\* C7: at most one thread initializes the LiveState of a BoxImpl at a time;
\* an initialization that fails leaves the cell empty; once the cell is set it
\* stays set and no further build is started on that BoxImpl.
C7_OneInit ==
  /\ [](\A i \in ImplIds :
          /\ Cardinality(Initializers(i)) <= 1
          /\ (impls[i].live = "init") <=> (Initializers(i) # {}))
  /\ [][\A i \in ImplIds :
          /\ (impls[i].live = "set" /\ impls'[i].used)
               => (impls'[i].live = "set" /\ builds'[i] = builds[i])
          /\ \A t \in Initializers(i) :
               (pc'[t] = "idle" /\ res'[t] \in {"Err", "Panic"})
                 => impls'[i].live = "empty"]_vars

\* C7: a second caller waits at the cell while the first one builds.
C7_Witness ==
  \E t, u \in Threads :
    /\ t # u /\ self[t] = self[u]
    /\ pc[t] = "stage" /\ pc[u] = "cell"

\* The threads between LockGuard::new and the return of init_live_state.
Builders == {t \in Threads : pc[t] \in {"stage", "finish"}}

\* C8: the box's lock is held by exactly the threads that are between the
\* acquisition and the return of init_live_state, and by at most one of them.
C8_LockAroundBuild ==
  /\ lockHolders = Builders
  /\ Cardinality(lockHolders) <= 1

\* C8: a builder of one host process holds the lock while a thread of another
\* host process waits for it.
C8_Witness ==
  \E t \in lockHolders, u \in Threads :
    /\ pc[u] = "lock"
    /\ impls[self[t]].proc # impls[self[u]].proc

\* C9: a stop() that persists Stopped leaves no cache entry for the box in its
\* runtime, by id or by name; a BoxImpl that Runtime.get then builds is a new
\* one, made from the row, with an un-cancelled token and an empty cell.
C9_StopInvalidatesCache ==
  [][ /\ \A t \in Threads :
           (pc[t] = "stopfin" /\ pc'[t] = "idle" /\ res'[t] = "Ok" /\ db.exists)
             => /\ by_id'[impls[self[t]].proc] = 0
                /\ ~by_name'[impls[self[t]].proc]
      /\ \A p \in Procs :
           (by_id[p] = 0 /\ by_id'[p] # 0)
             => /\ ~impls[by_id'[p]].used
                /\ by_id'[p] \notin stopDone
                /\ ~impls'[by_id'[p]].cancelled
                /\ impls'[by_id'[p]].live = "empty"
                /\ impls'[by_id'[p]].status = db.status
                /\ by_name'[p] ]_vars

\* C9: after a stop() on another BoxImpl, start() on the BoxImpl that
\* Runtime.get returned has succeeded and the box runs again.
C9_Witness ==
  \E t \in Threads :
    /\ op[t] = "start" /\ pc[t] = "idle" /\ res[t] = "Ok"
    /\ atBegin[t] = "Stopped"
    /\ self[t] \notin stopDone /\ stopDone # {}
    /\ impls[self[t]].status = "Running"
    /\ db.status = "Running"

\* C10: stop() on a BoxImpl whose status is Stopped returns Ok and changes
\* neither the row, shim.pid, the shims, the caches, boxes_stopped nor the
\* BoxImpl.
C10_StopOnStopped ==
  [][\A t \in Threads :
       (Begins(t) /\ op'[t] = "stop" /\ impls[self'[t]].status = "Stopped")
         => /\ pc'[t] = "idle"
            /\ res'[t] = "Ok"
            /\ UNCHANGED <<db, pidFile, alive, by_id, by_name, boxes_stopped, impls>>]_vars

\* C10: a stop() begun on a Stopped BoxImpl has returned Ok.
C10_Witness ==
  \E t \in Threads :
    op[t] = "stop" /\ atBegin[t] = "Stopped" /\ pc[t] = "idle" /\ res[t] = "Ok"

\* C11: start() on a BoxImpl whose status is Running and whose token is not
\* cancelled returns Ok at once; no stage runs, no shim is spawned, and the
\* BoxImpl, the row and shim.pid stay as they were.
C11_StartOnRunning ==
  [][\A t \in Threads :
       ( /\ Begins(t) /\ op'[t] = "start"
         /\ impls[self'[t]].status = "Running" /\ ~impls[self'[t]].cancelled )
         => /\ pc'[t] = "idle"
            /\ res'[t] = "Ok"
            /\ UNCHANGED <<impls, db, pidFile, alive, spawned, builds, lockHolders>>]_vars

\* C11: a start() begun on a Running BoxImpl has returned Ok.
C11_Witness ==
  \E t \in Threads :
    /\ op[t] = "start" /\ atBegin[t] = "Running" /\ pc[t] = "idle" /\ res[t] = "Ok"
    /\ impls[self[t]].status = "Running" /\ builds[self[t]] = 1

\* C12, as the code has it: a BoxImpl whose cell holds a LiveState has status
\* Running or a cancelled token (stop() never empties the cell).
C12_LiveStateRunningOrCancelled ==
  \A i \in ImplIds :
    (impls[i].used /\ impls[i].live = "set")
      => (impls[i].status = "Running" \/ impls[i].cancelled)

\* C12: a stopped BoxImpl still holds the LiveState it had built.
C12_Witness ==
  \E i \in ImplIds :
    /\ impls[i].used /\ impls[i].live = "set"
    /\ impls[i].status = "Stopped" /\ impls[i].cancelled
    /\ i \in stopDone

\* C12, as stated: a BoxImpl whose cell holds a LiveState has status Running.
C12_LiveStateOnlyWhileRunning ==
  \A i \in ImplIds :
    (impls[i].used /\ impls[i].live = "set") => impls[i].status = "Running"

\* C13, as stated: the status a BoxImpl reports equals the persisted status
\* (between calls, after the only call so far, on a row that exists).
C13_InfoEqualsRow ==
  ( /\ opsBegun = 1 /\ crashes = 0 /\ db.exists
    /\ \A t \in Threads : pc[t] = "idle" )
  => \A i \in ImplIds : impls[i].used => impls[i].status = db.status

\* C14, as stated: while the stages of a plan run, the cleanup guard is armed
\* (no database write has failed, no host process has crashed).
C14_GuardArmedDuringStages ==
  (~dbFailed /\ crashes = 0) =>
    \A t \in Threads : pc[t] = "stage" => guard[t].armed

\* The stages the three plans are said to consist of.
SpawnStages ==
  <<{"Filesystem"}, {"ContainerRootfs", "GuestRootfs"}, {"VmmSpawn"},
    {"GuestConnect"}, {"GuestInit"}>>

AttachStages == <<{"VmmAttach"}, {"GuestConnect"}>>

IsPrefix(s, full) == Len(s) <= Len(full) /\ s = SubSeq(full, 1, Len(s))

\* The plan and the flags a build on a state of the given status must have.
PlanIs(t, stages, reuse, skip) ==
  /\ guard[t].reuse_rootfs = reuse
  /\ guard[t].skip_guest_wait = skip
  /\ IF pc[t] = "finish" THEN guard[t].ran = stages
     ELSE /\ IsPrefix(guard[t].ran, stages)
          /\ Len(guard[t].ran) < Len(stages)

\* C15: a build on a Configured box runs the five first-start stages, on a
\* Stopped box the same stages with reuse_rootfs set, on a Running box only
\* VmmAttach and GuestConnect with skip_guest_wait set; no other status
\* reaches a stage.
C15_PlanByStatus ==
  \A t \in Threads :
    pc[t] \in {"stage", "finish"} =>
      CASE snap[t] = "Configured" -> PlanIs(t, SpawnStages, FALSE, FALSE)
        [] snap[t] = "Stopped" -> PlanIs(t, SpawnStages, TRUE, FALSE)
        [] snap[t] = "Running" -> PlanIs(t, AttachStages, FALSE, TRUE)
        [] OTHER -> FALSE

\* C15: a reattach has run to the end of its plan.
C15_Witness ==
  \E t \in Threads :
    /\ pc[t] = "finish" /\ snap[t] = "Running"
    /\ guard[t].ran = AttachStages /\ guard[t].skip_guest_wait

ReadySetupErrors == {"NotUnixSocket", "BindFailed", "AcceptFailed"}

C17_CancelAbortsReadyWait ==
  ready.cancelled => ready.outcome \notin {"Ok", "ShimDied", "Timeout"}

\* C18, as the code has it: a stop() under way has sent SIGTERM; SIGKILL is
\* sent after SIGTERM, and only once more than 2000 ms have elapsed or, with a
\* Child handle, when try_wait has failed.
C18_TermThenKill ==
  /\ (vmm.phase # "idle") => vmm.term
  /\ vmm.kill =>
       ( /\ vmm.term
         /\ \/ vmm.killAt > GRACEFUL_SHUTDOWN_TIMEOUT_MS
            \/ (vmm.mode = "child" /\ vmm.waitErr) )

\* C18: an attached handler has sent SIGKILL after the grace period.
C18_Witness ==
  /\ vmm.mode = "attached" /\ vmm.term /\ vmm.kill
  /\ vmm.killAt > GRACEFUL_SHUTDOWN_TIMEOUT_MS

\* C18, as stated: SIGKILL is sent only after the 2000 ms of grace.
C18_KillOnlyAfterGrace ==
  vmm.kill => (vmm.term /\ vmm.killAt > GRACEFUL_SHUTDOWN_TIMEOUT_MS)

\* C19, as stated: when stop() has returned the process has exited and been
\* reaped; is_running() is false.
C19_StoppedMeansReaped ==
  (vmm.phase = "done") => ~is_running(vmm)

\* C20, as stated: once shutdown() has returned on a runtime, the BoxImpl that
\* was Running when shutdown() was called is Stopped, the token of every
\* BoxImpl of that runtime is cancelled (no database write has failed).
C20_StoppedAfterShutdown ==
  \A p \in Procs :
    (rt[p].down = "returned" /\ ~dbFailed) =>
      /\ \A i \in ImplIds :
           (impls[i].used /\ impls[i].proc = p) => impls[i].cancelled
      /\ (rt[p].was # 0) => (impls[rt[p].was].status = "Stopped")

\* What does hold once shutdown() has returned: the tokens are cancelled and
\* a create() begun afterwards returns Stopped and creates nothing.
TokensAfterShutdown ==
  /\ [](\A p \in Procs :
          rt[p].down = "returned" =>
            /\ rt[p].cancelled
            /\ \A i \in ImplIds :
                 (impls[i].used /\ impls[i].proc = p) => impls[i].cancelled)
  /\ [][\A t \in Threads, p \in Procs :
          ( /\ Begins(t) /\ op'[t] = "create"
            /\ up = [q \in Procs |-> q = p]
            /\ rt[p].down = "returned" )
            => /\ res'[t] = "Stopped"
               /\ pc'[t] = "idle"
               /\ UNCHANGED <<db, impls, caches>>]_vars

\* A call of thread t returns in this step (a call may begin and return in
\* one step).
Returns(t) == pc'[t] = "idle" /\ op'[t] # "none" /\ (pc[t] # "idle" \/ Begins(t))

\* C25, as stated: every exec() call that returns has incremented
\* total_commands and the box's commands_executed by exactly one, and one that
\* returns an error has also incremented total_exec_errors and the box's
\* exec_errors by exactly one.
C25_EveryExecCounted ==
  [][\A t \in Threads :
       (Returns(t) /\ op'[t] = "exec") =>
         LET i == self'[t]
             p == impls[self'[t]].proc
             e == IF res'[t] = "Ok" THEN 0 ELSE 1
         IN /\ runtime_metrics'[p].total_commands
                 = runtime_metrics[p].total_commands + 1
            /\ box_metrics'[i].commands_executed
                 = box_metrics[i].commands_executed + 1
            /\ runtime_metrics'[p].total_exec_errors
                 = runtime_metrics[p].total_exec_errors + e
            /\ box_metrics'[i].exec_errors = box_metrics[i].exec_errors + e]_vars

\* A stop() returning Ok in this step on an auto_remove box leaves no row and
\* no cache entry of the box, and a create() for the name begun while the box
\* has no row (and the runtime is not shut down) returns Ok with a new row.
RemovedByStop(t) ==
  LET p == impls[self'[t]].proc IN
    /\ ~db'.exists
    /\ by_id'[p] = 0
    /\ ~by_name'[p]
    /\ pidFile' = 0

CreateSucceeds ==
  \A t \in Threads :
    (Begins(t) /\ op'[t] = "create" /\ ~db.exists
       /\ \A p \in FirstHost : ~rt[p].cancelled)
      => (res'[t] = "Ok" /\ db'.exists /\ db'.status = "Configured")

C22_CreateRefusesTakenName ==
  [][\A t \in Threads :
       (Begins(t) /\ op'[t] = "create") =>
         /\ db.exists =>
              (/\ pc'[t] = "idle"
               /\ res'[t] = "AlreadyExists"
               /\ UNCHANGED <<db, impls, caches, counters>>)
         /\ res'[t] = "Ok" => ~db.exists]_vars

\* C22: a create() for the name of the existing box was refused.
C22_Witness ==
  /\ db.exists
  /\ \E t \in Threads :
       op[t] = "create" /\ pc[t] = "idle" /\ res[t] = "AlreadyExists"

\* C23: a remove() begun when the box has no row returns NotFound and changes
\* neither the database, the caches, shim.pid, the shims, the lock, the
\* BoxImpls nor any counter.
C23_RemoveTwice ==
  [][\A t \in Threads :
       (Begins(t) /\ op'[t] = "remove" /\ ~db.exists) =>
         /\ pc'[t] = "idle"
         /\ res'[t] = "NotFound"
         /\ UNCHANGED <<shared, caches, lockHolders, impls, boxes_stopped,
                        counters>>]_vars

\* C23: the box was removed by remove() (no stop() has removed it) and a
\* later remove() returned NotFound.
C23_Witness ==
  /\ ~db.exists
  /\ boxes_stopped[1] = 0
  /\ \E t \in Threads : op[t] = "remove" /\ pc[t] = "idle" /\ res[t] = "NotFound"

\* C26, as stated: whenever no call is in flight, num_running_boxes() of the
\* runtime equals the number of boxes that are running (one if the box's
\* status is Running, else none).
C26_NumRunningIsRunning ==
  \A p \in FirstHost :
    (up[p] /\ \A t \in Threads : pc[t] = "idle")
      => num_running_boxes(p) = (IF db.exists /\ db.status = "Running" THEN 1 ELSE 0)

\* The Init requests answered with Success.
InitSuccesses == {r \in Inits : guest.result[r] = "Success"}

\* C24: at most one Init request is answered with Success, and the guest is
\* initialized exactly when one was; once the guest is initialized, a request
\* that gets the mutex is answered with the "already initialized" error and
\* no volume is mounted and no network configured again; a request answered
\* with an error leaves the guest as initialized as it was.
C24_InitOnce ==
  /\ [](Cardinality(InitSuccesses) <= 1 /\ (guest.initialized <=> InitSuccesses # {}))
  /\ [][/\ guest.initialized =>
            (/\ guest'.initialized
             /\ guest'.mounts = guest.mounts
             /\ guest'.networks = guest.networks)
        /\ \A r \in Inits :
             /\ (guest.initialized /\ guest.pc[r] = "wait" /\ guest'.pc[r] # "wait")
                  => guest'.result[r] \in {"AlreadyInitialized", "Dropped"}
             /\ (guest.result[r] = "none"
                   /\ guest'.result[r] \notin {"none", "Success"})
                  => guest'.initialized = guest.initialized]_vars

\* C24: one Init failed at its mounts, a later one succeeded, and one received
\* after that was answered "already initialized".
C24_Witness ==
  /\ guest.initialized
  /\ guest.mounts = 2
  /\ \E q, r, w \in Inits :
       /\ guest.result[q] = "MountFailed"
       /\ guest.result[r] = "Success"
       /\ guest.result[w] = "AlreadyInitialized"

\* C27, as stated: an entry stored with complete = true keeps its manifest
\* digest, its config digest, its layer list and its complete flag as long as
\* the reference has an entry.
C27_CompleteIsImmutable ==
  [][\A old \in images.rows, new \in images'.rows :
       (old.reference = new.reference /\ old.complete # 0) =>
         /\ new.manifest_digest = old.manifest_digest
         /\ new.config_digest = old.config_digest
         /\ new.layers = old.layers
         /\ new.complete # 0]_vars

\* C28: the run command exits with 128 + n when the core reported -n (the
\* guest process was killed by signal n), and with the guest's exit code
\* otherwise.
C28_ExitCode ==
  cli.phase = "exited" =>
    /\ cli.exit_code < 0 => cli.status = 128 + (0 - cli.exit_code)
    /\ cli.exit_code >= 0 => cli.status = cli.exit_code

\* C28: a guest process killed by SIGTERM (15) made the command exit with 143.
C28_Witness ==
  cli.phase = "exited" /\ cli.exit_code = 0 - 15 /\ cli.status = 143

\* C29: in every state, a BoxImpl's state and the box's row have a pid
\* exactly when their status is Running, and the pid is that of a shim that
\* was spawned.
C29_PidIffRunning ==
  /\ \A i \in ImplIds :
       impls[i].used =>
         /\ impls[i].pid # 0 <=> impls[i].status = "Running"
         /\ impls[i].pid \in 0..spawned
  /\ db.exists =>
       /\ db.pid # 0 <=> db.status = "Running"
       /\ db.pid \in 0..spawned

\* C29: a start() had set Running with the pid of shim.pid, and a stop() on
\* the running box has returned: the state and the row are Stopped, without
\* a pid.
C29_Witness ==
  \E t \in Threads :
    /\ op[t] = "stop" /\ pc[t] = "idle" /\ res[t] = "Ok"
    /\ atBegin[t] = "Running"
    /\ self[t] # 0
    /\ impls[self[t]].status = "Stopped" /\ impls[self[t]].pid = 0
    /\ db.exists /\ db.status = "Stopped" /\ db.pid = 0
    /\ spawned = 1

\* The tasks that have succeeded in the build whose context is g.
TasksDone(g) == UNION {g.ran[k] : k \in 1..Len(g.ran)}

\* C30: in a build of the first-start or restart plan, VmmSpawn runs (and a
\* shim is spawned) only once Filesystem, ContainerRootfs and GuestRootfs have
\* succeeded, GuestConnect only once VmmSpawn has, GuestInit only once
\* GuestConnect has; the step in which a stage fails runs no task, spawns
\* nothing and ends the build, and no task runs outside a build.
C30_StagesInOrder ==
  [][/\ \A t \in Threads :
          LET done == TasksDone(guard[t])
              new == TasksDone(guard'[t]) \ TasksDone(guard[t])
          IN /\ (new # {} /\ snap[t] \in {"Configured", "Stopped"}) =>
                  /\ pc[t] = "stage"
                  /\ "VmmSpawn" \in new =>
                       (/\ {"Filesystem", "ContainerRootfs", "GuestRootfs"} \subseteq done
                        /\ new = {"VmmSpawn"})
                  /\ "GuestConnect" \in new => "VmmSpawn" \in done
                  /\ "GuestInit" \in new => "GuestConnect" \in done
             /\ (pc[t] = "stage" /\ pc'[t] = "idle" /\ res'[t] = "Err") =>
                  (new = {} /\ spawned' = spawned /\ pidFile' = pidFile)
     /\ spawned' # spawned =>
          \E t \in Threads :
            /\ pc[t] = "stage"
            /\ "VmmSpawn" \in TasksDone(guard'[t]) \ TasksDone(guard[t])]_vars

\* C30: a restart has run its five stages to the end.
C30_Witness ==
  \E t \in Threads :
    /\ pc[t] = "finish" /\ snap[t] = "Stopped"
    /\ TasksDone(guard[t]) =
         {"Filesystem", "ContainerRootfs", "GuestRootfs", "VmmSpawn",
          "GuestConnect", "GuestInit"}

\* C32: when stop() finds the box's row deleted as it saves Stopped, it
\* returns Ok, the row stays deleted, and the state in memory ends as Stopped
\* with no pid.
C32_StopOnDeletedRow ==
  [][\A t \in Threads :
       (pc[t] = "stopfin" /\ ~db.exists /\ StopFinish(t)) =>
         /\ res'[t] = "Ok"
         /\ ~db'.exists
         /\ impls'[self[t]].status = "Stopped"
         /\ impls'[self[t]].pid = 0]_vars

\* A stop() past its early exit has returned Ok on a box whose row another
\* call had removed: nothing was counted and the row is still gone.
C32_Witness ==
  \E t \in Threads :
    /\ op[t] = "stop" /\ pc[t] = "idle" /\ res[t] = "Ok"
    /\ self[t] \in stopDone
    /\ ~auto_remove /\ ~db.exists
    /\ crashes = 0
    /\ boxes_stopped[impls[self[t]].proc] = 0
    /\ impls[self[t]].status = "Stopped" /\ impls[self[t]].pid = 0

\* A create() call begins and returns in this step.
CreateStep == \E t \in Threads : Begins(t) /\ op'[t] = "create"

\* Runtime.remove deletes the row in this step: called on the runtime, or by
\* the stop() of an auto_remove box on its way out.
RemoveStep ==
  \/ \E p \in Procs : Remove(p)
  \/ \E t \in Threads : auto_remove /\ StopFinish(t)

C39_StoppedCountedOnce ==
  /\ \A p \in Procs :
       boxes_stopped[p] <= Cardinality({i \in stopDone : impls[i].proc = p})
  /\ \A t, u \in Threads :
       (t # u /\ pc[t] = "stopfin" /\ pc[u] = "stopfin" /\ self[t] = self[u])
         => impls[self[t]].live # "set"

\* C31, as stated: the host listens on the ready socket from before the
\* spawn of the VMM on, so no connection of the guest to it is refused.
C31_ListeningBeforeSpawn == ~ready.refused

\* C35: the image index is a map keyed by reference: it holds at most one row
\* per reference, get returns the image of the latest upsert of the reference
\* (None when there was none or a remove followed it), remove returns true
\* exactly when the reference had an entry, and list_all returns every entry
\* once, the later cached_at first.
C35_IndexIsMap ==
  /\ \A reference \in References :
       /\ Cardinality(RowsOf(reference)) <= 1
       /\ get(reference) = images.latest[reference]
  /\ images.ret.op = "remove" => (images.ret.removed <=> images.ret.existed)
  /\ list_all # {}
  /\ \A result \in list_all :
       /\ {result[k] : k \in 1..Len(result)} =
            {pair \in References \X CachedImages :
               pair[2] \in images.latest[pair[1]]}
       /\ Len(result) =
            Cardinality({reference \in References : images.latest[reference] # {}})
       /\ \A j, k \in 1..Len(result) :
            j < k => result[j][2].cached_at >= result[k][2].cached_at

\* A remove has returned true while the index holds another reference, whose
\* entry was upserted with two layers.
C35_Witness ==
  /\ images.ret.op = "remove" /\ images.ret.removed
  /\ \E row \in images.rows : Len(from_str(row.layers)) = 2 /\ row.complete = 1

\* C37: wait_for_completion returns the exit status only when the status has
\* arrived and every stdout/stderr forwarding task has finished, whichever
\* came first; the stdin forwarding is aborted from the arrival of the status
\* on; and a host signal is forwarded to the execution in a step that leaves
\* the loop running.
C37_CompletionLoop ==
  /\ [](cli.phase \in {"completed", "exited"} =>
          cli.has_status /\ cli.io_done /\ cli.io_tasks = 0)
  /\ [](cli.has_status => cli.stdin # "forwarding")
  /\ [][(cli.phase = "waiting" /\ cli'.has_status /\ cli'.io_done)
          => cli'.phase = "completed"]_vars
  /\ [][\A sig \in HostSignals :
          (cli.phase = "waiting" /\ cli'.events = Append(cli.events, sig)) =>
            /\ cli'.phase = "waiting"
            /\ cli'.has_status = cli.has_status
            /\ cli'.io_done = cli.io_done]_vars

\* The forwarding tasks finished first, SIGINT was forwarded, then the exit
\* status arrived, the stdin task was aborted and the loop returned.
C37_Witness ==
  /\ cli.phase = "completed"
  /\ cli.events = <<"io", "SIGINT", "exit">>
  /\ cli.stdin = "aborted"

\* C38, as stated: once the resource flags are applied, the options' cpus, if
\* set, is a value of 1..255.
C38_CpusInRange ==
  (call.fn = "apply_to" /\ call.returned) =>
    \A cpus \in call.opts.cpus : cpus \in 1..255

\* The entries of an Option<Vec<..>>: none when it is None.
Entries(option) == IF option = {} THEN <<>> ELSE CHOOSE e \in option : TRUE

\* The entries of a list whose key is ENV_VAR.
ContainerEntries(list) == SelectSeq(list, LAMBDA entry : entry[1] = ENV_VAR)

\* C34: the command exec() sends has the caller's environment entries first
\* and unchanged, followed by one ENV_VAR entry naming the container exactly
\* when the caller gave none with that key; its working directory is the
\* caller's when the caller set one, else the one of the box's options.
C34_ExecCommand ==
  (call.fn = "exec" /\ call.returned) =>
    \A sent \in call.sent :
      LET given == Entries(call.command.env)
          out == Entries(sent.env)
      IN /\ IsPrefix(given, out)
         /\ Len(out) = Len(given) + (IF ContainerEntries(given) = <<>> THEN 1 ELSE 0)
         /\ ContainerEntries(given) = <<>> =>
              out[Len(out)] = <<ENV_VAR, <<CONTAINER_KEY, "=", call.container_id>> >>
         /\ ContainerEntries(given) # <<>> => sent.env = call.command.env
         /\ sent.working_dir = (IF call.command.working_dir # {}
                                THEN call.command.working_dir
                                ELSE call.options.working_dir)

\* exec() was called with PATH set, without ENV_VAR and without a working
\* directory on a box configured with /work: the command sent has both.
C34_Witness ==
  /\ call.fn = "exec" /\ call.returned
  /\ call.command = [env |-> {<<(<<"PATH", <<"/bin">> >>)>>}, working_dir |-> {}]
  /\ call.options.working_dir = {"/work"}
  /\ \E sent \in call.sent :
       /\ Len(Entries(sent.env)) = 2
       /\ sent.working_dir = {"/work"}

\* The directory a path names: "." stays, ".." goes to the parent (the root
\* is its own parent).
RECURSIVE Resolve(_, _)
Resolve(path, dir) ==
  IF path = <<>> THEN dir
  ELSE Resolve(Tail(path),
               IF Head(path) = <<".">> THEN dir
               ELSE IF Head(path) = <<".", ".">>
                    THEN (IF dir = <<>> THEN dir ELSE SubSeq(dir, 1, Len(dir) - 1))
                    ELSE Append(dir, Head(path)))

\* C36, as stated: the directory a layout derives for a container id is the
\* layout's base directory or lies below it.
C36_PathsInsideBase ==
  (call.fn = "container" /\ call.returned) =>
    IsPrefix(call.base, Resolve(call.path, <<>>))

====
